---- MODULE Spec2Model ----
(***************************************************************************)
(* Model of the compactor2 driver (src/compactor2/src/driver.rs): the      *)
(* partition scheduler `compact`, the per-partition wrapper                *)
(* `compact_partition`, the rounds/branches loop `try_compact_partition`,  *)
(* `run_plans`, `execute_plan`, `upload_files_to_object_store` and         *)
(* `update_catalog`, together with the collaborators they call (partition  *)
(* stream, catalog, scratchpad, job semaphore, progress-aware timeout,     *)
(* done sink).  Every `.await` of the driver is a program counter value of *)
(* the task; the timeout may cancel a task at any of them.                 *)
(*                                                                         *)
(* Two specifications share the control flow of the driver:                *)
(*   Spec       the scheduler: several compact_partition futures in        *)
(*              flight, their awaits interleaved, the files left out;      *)
(*   FilesSpec  one compact_partition invocation with the files, the       *)
(*              scratchpad, the durable store and the catalog it touches.  *)
(* FairSpec is Spec under a runtime that keeps polling what is ready.      *)
(* UpgradeSpec, LevelSpec and DivideSpec start the driver at one call,     *)
(* RoundsSpec at the first commit of an invocation.                        *)
(*                                                                         *)
(* Components checked on their own, each over one variable of its own:     *)
(*   MetricsSpec    the metrics wrapper of the partition done sink;        *)
(*   PermitSpec     compute_permits, with its f64 arithmetic;              *)
(*   DurationSpec   the InfluxQL duration literal, parsed and displayed;   *)
(*   PersisterSpec  the ingester's HotPartitionPersister;                  *)
(*   ServerSpec     database create, release and claim of the CLI;         *)
(*   PlannerSpec    the entry points of the FlightSQL planner.             *)
(***************************************************************************)
EXTENDS Integers, Sequences, FiniteSets, TLC

\* ---------------------------------------------------------------- bounds
\* longest partition stream handed to `compact`
MaxStream == 2
\* rounds FilesSpec lets one compact_partition invocation start (Spec does not
\* count the rounds: there the loop goes on until a filter or the timeout
\* ends it)
MaxRounds == 1
\* total_permits of the job semaphore
TotalPermits == 2

\* ------------------------------------------------------- small input sets
PartitionIds == {1, 2}
\* column_count of the partition info of each partition: one narrow, one wide
PartitionColumns == [p \in PartitionIds |-> IF p = 1 THEN 50 ELSE 100]
\* non-None plans the IR planner may return for one branch
PlanCounts == {0, 1, 2}

SINGLE_THREADED_COLUMN_COUNT == 100

\* ------------------------------------------------------------ data model
Ok == [ok |-> TRUE, kind |-> "", msg |-> ""]
Err(k, m) == [ok |-> FALSE, kind |-> k, msg |-> m]
ComponentErrors == {Err(k, "component error") : k \in {"ObjectStore", "Unknown"}}

\* object store ids, all distinct: the object of an initial file, the n-th
\* output a job staged in the scratchpad, the copy of an object that
\* load_to_scratchpad staged, the copy that make_public published
InitUuid(n) == [kind |-> "init", n |-> n, at |-> "durable"]
StagedOutput(n) == [kind |-> "out", n |-> n, at |-> "staged output"]
StagedInput(u) == [u EXCEPT !.at = "staged input"]
PublicUuid(u) == [u EXCEPT !.at = "durable"]

\* the catalog before `compact` starts: partition 1 holds an L0 file,
\* partition 2 an L1 file
InitCatalog ==
    {[id |-> p, pid |-> p, uuid |-> InitUuid(p), level |-> p - 1] : p \in PartitionIds}

VARIABLES
    partition_stream,       \* the ids the partition stream yields, in order
    partition_concurrency,  \* argument of `compact`
    tasks,                  \* the compact_partition invocations, in stream order
    returned,               \* `compact` has returned
    catalog,                \* the catalog's live (not soft-deleted) files
    next_id,                \* the next parquet file id the catalog assigns
    durable,                \* object ids present in the durable object store
    pad,                    \* object ids present in the invocation's scratchpad
    locals,                 \* the file variables of try_compact_partition
    metrics_sink,           \* a MetricsPartitionDoneSinkWrapper and its inner sink
    permit_call,            \* one call of compute_permits
    literal,                \* one InfluxQL duration literal, parsed and displayed
    persister,              \* a HotPartitionPersister, its partition and queue
    server,                 \* the database server the management CLI talks to
    planner                 \* one FlightSQL command and the FlightSQLPlanner call on it

file_vars == <<catalog, next_id, durable, pad, locals>>
\* the driver's part of the state
driver_vars == <<partition_stream, partition_concurrency, tasks, returned,
                 catalog, next_id, durable, pad, locals>>
\* the components modelled on their own
component_vars == <<metrics_sink, permit_call, literal, persister, server, planner>>
vars == <<partition_stream, partition_concurrency, tasks, returned,
          catalog, next_id, durable, pad, locals,
          metrics_sink, permit_call, literal, persister, server, planner>>

\* a component that is not part of the specification at hand
NotUsed == "not used"
ComponentsNotUsed ==
    /\ metrics_sink = NotUsed /\ permit_call = NotUsed /\ literal = NotUsed
    /\ persister = NotUsed /\ server = NotUsed /\ planner = NotUsed

\* ------------------------------------------------------------ pure helpers
RECURSIVE SeqSum(_)
SeqSum(s) == IF s = <<>> THEN 0 ELSE Head(s) + SeqSum(Tail(s))

Range(s) == {s[k] : k \in 1..Len(s)}


\* ----------------------------------------------------------- f64 values
\* compute_permits works in f64 (IEEE 754 binary64, round to nearest, ties to
\* even).  A mantissa is a natural number of up to 106 bits, kept as a
\* little-endian sequence of limbs of LimbBits bits; an f64 is [m, e] with
\* value m * 2^e and m of at most MantissaBits bits.  A usize is [hi, lo] with
\* value hi * 2^32 + lo: lo is the usize `as u32`, hi what the cast drops.
\* F64Permits is
\* total_permits as f64 * share * share for share = columns as f64 / cap as f64
\* (columns < cap), given by its comparison with 1.0 and its value as u32.
F64Permits(total_permits, columns, cap) ==
    LET
        LimbBits == 14
        Limb == 2^LimbBits
        MantissaBits == 53

        RECURSIVE BigOf(_)
        BigOf(n) == IF n = 0 THEN <<>> ELSE <<n % Limb>> \o BigOf(n \div Limb)

        RECURSIVE BigToInt(_)
        BigToInt(a) == IF a = <<>> THEN 0 ELSE Head(a) + Limb * BigToInt(Tail(a))

        \* without the zero limbs at the most significant end
        RECURSIVE Trim(_)
        Trim(a) ==
            IF a # <<>> /\ a[Len(a)] = 0 THEN Trim(SubSeq(a, 1, Len(a) - 1)) ELSE a

        RECURSIVE BigAdd(_, _, _)
        BigAdd(a, b, carry) ==
            IF a = <<>> /\ b = <<>>
            THEN BigOf(carry)
            ELSE LET x == IF a = <<>> THEN 0 ELSE Head(a)
                     y == IF b = <<>> THEN 0 ELSE Head(b)
                     v == x + y + carry
                 IN <<v % Limb>> \o BigAdd(IF a = <<>> THEN a ELSE Tail(a),
                                           IF b = <<>> THEN b ELSE Tail(b), v \div Limb)

        \* a * k + carry for a small k
        RECURSIVE BigMulSmall(_, _, _)
        BigMulSmall(a, k, carry) ==
            IF a = <<>>
            THEN BigOf(carry)
            ELSE LET v == Head(a) * k + carry
                 IN <<v % Limb>> \o BigMulSmall(Tail(a), k, v \div Limb)

        RECURSIVE BigMul(_, _)
        BigMul(a, b) ==
            IF b = <<>>
            THEN <<>>
            ELSE BigAdd(BigMulSmall(a, Head(b), 0), <<0>> \o BigMul(a, Tail(b)), 0)

        \* quotient and remainder of a by a small d
        RECURSIVE BigDivSmall(_, _)
        BigDivSmall(a, d) ==
            IF a = <<>>
            THEN [q |-> <<>>, r |-> 0]
            ELSE LET hi == BigDivSmall(Tail(a), d)
                     v == hi.r * Limb + Head(a)
                 IN [q |-> <<v \div d>> \o hi.q, r |-> v % d]

        \* number of bits of a (trimmed)
        BitLen(a) ==
            IF a = <<>>
            THEN 0
            ELSE (Len(a) - 1) * LimbBits
                   + (CHOOSE n \in 1..LimbBits : 2^(n - 1) <= a[Len(a)] /\ a[Len(a)] < 2^n)

        \* floor(a / 2^n), and whether a one bit was dropped
        ShiftRight(a, n) ==
            LET w == n \div LimbBits
                d == BigDivSmall(SubSeq(a, w + 1, Len(a)), 2^(n % LimbBits))
            IN [q |-> Trim(d.q),
                sticky |-> d.r # 0 \/ \E i \in 1..Len(a) : i <= w /\ a[i] # 0]

        \* a / 2^n (n >= 1) rounded to nearest, ties to even; sticky says that a
        \* itself stands for a value slightly above a
        RoundShift(a, n, sticky) ==
            LET s == ShiftRight(a, n - 1)
                h == BigDivSmall(s.q, 2)
                q == Trim(h.q)
                odd == q # <<>> /\ q[1] % 2 = 1
            IN IF h.r = 1 /\ (s.sticky \/ sticky \/ odd)
               THEN Trim(BigAdd(q, <<1>>, 0))
               ELSE q

        \* the f64 nearest to m * 2^e
        F64Round(m, e, sticky) ==
            IF BitLen(m) <= MantissaBits
            THEN [m |-> m, e |-> e]
            ELSE [m |-> RoundShift(m, BitLen(m) - MantissaBits, sticky),
                  e |-> e + BitLen(m) - MantissaBits]

        \* `n as f64` for a usize n below 2^53: 2^32 is 16 in the third limb
        F64OfUsize(n) == [m |-> Trim(BigAdd(BigOf(n.lo), <<0, 0, 16 * n.hi>>, 0)), e |-> 0]

        \* a as f64 / b as f64 for small 0 <= a < b: a * 2^60 / b has over 53 bits
        F64Div(a, b) ==
            LET d == BigDivSmall(<<0, 0, 0, 0>> \o BigMulSmall(BigOf(a), 16, 0), b)
            IN F64Round(Trim(d.q), -60, d.r # 0)

        F64Mul(x, y) == F64Round(Trim(BigMul(x.m, y.m)), x.e + y.e, FALSE)

        \* x < 1.0
        F64LessThanOne(x) == BitLen(x.m) + x.e <= 0

        \* `x as u32` for an x below 2^31: the fraction is dropped
        F64AsU32(x) ==
            IF x.e >= 0
            THEN BigToInt(x.m) * 2^x.e
            ELSE BigToInt(ShiftRight(x.m, -x.e).q)

        share == F64Div(columns, cap)
        permits == F64Mul(F64Mul(F64OfUsize(total_permits), share), share)
    IN [less_than_one |-> F64LessThanOne(permits), as_u32 |-> F64AsU32(permits)]

\* mutant of compute_permits: one permit whatever the column count
compute_permits_one(total_permits, columns) == 1

\* mutant of compute_permits: a wide partition is given a single permit
compute_permits_wide_single(total_permits, columns) ==
    IF columns >= SINGLE_THREADED_COLUMN_COUNT
    THEN 1
    ELSE compute_permits_one(total_permits, columns)

\* driver.rs compute_permits: `total_permits as u32` at or above the column
\* cap, else the squared share of the permits, computed in f64 and truncated,
\* at least one.
compute_permits(total_permits, columns) ==
    IF columns >= SINGLE_THREADED_COLUMN_COUNT
    THEN total_permits.lo
    ELSE LET permits == F64Permits(total_permits, columns, SINGLE_THREADED_COLUMN_COUNT)
         IN IF permits.less_than_one THEN 1 ELSE permits.as_u32

\* execute_plan: the permits compute_permits gives the plans of each partition
PartitionPermits ==
    [p \in PartitionIds |->
        compute_permits([hi |-> 0, lo |-> TotalPermits], PartitionColumns[p])]

\* SavedParquetFileState::from: the fingerprint of a set of files
SavedParquetFileState(files) == {<<f.id, f.uuid>> : f \in files}

\* partition_files_source.fetch
CatalogFiles(p) ==
    {[id |-> f.id, uuid |-> f.uuid, level |-> f.level] : f \in {g \in catalog : g.pid = p}}

\* the file variables of try_compact_partition before its first await;
\* commits is the history of the invocation: the round, the ids of
\* files_to_delete and of files_to_upgrade of each commit.commit call so far
NoLocals ==
    [files |-> {}, files_next |-> {}, branches |-> <<>>, saved |-> {},
     current |-> {}, target_level |-> 0, keep |-> {}, upgrade |-> {}, soc |-> {},
     created |-> <<>>, nout |-> 0, commits |-> <<>>]

\* the file variables once try_compact_partition is gone: only the history is left
Dropped(l) == [NoLocals EXCEPT !.commits = l.commits]

\* ------------------------------------------------------ task (one future)
\* TimeoutWithProgress<Result<(), DynError>>
NoOutcome == [tag |-> "none", val |-> Ok]
Completed(res) == [tag |-> "Completed", val |-> res]
SomeWorkTryAgain == [tag |-> "SomeWorkTryAgain", val |-> Ok]
NoWorkTimeOutError == [tag |-> "NoWorkTimeOutError", val |-> Ok]

\* compact_partition up to its first await: the progress channel holds false
\* and timeout_with_progress_checking keeps its receiver, no commit has
\* returned, nothing is recorded.  branches and plans count what the running
\* round and the running branch have still to do; deadline says the timeout
\* fired.
NewTask(p) ==
    [pid |-> p, pc |-> "fetch_files", round |-> 0, branches |-> 0, plans |-> 0,
     held |-> 0, progress |-> FALSE, receiver |-> TRUE, committed |-> FALSE,
     deadline |-> FALSE, outcome |-> NoOutcome, sink |-> <<>>]

\* the awaits inside try_compact_partition: the places the timeout can cancel
TryPcs == {"fetch_files", "fetch_info", "round_info", "partition_filter",
           "post_filter", "load", "acquire", "plan", "job", "upload",
           "clean_inputs", "fetch_state", "commit"}

\* mutant of DropFuture: the permit is not given back with the future
DropFuture_leaks(t) == [t EXCEPT !.round = 0, !.branches = 0, !.plans = 0]

\* the try_compact_partition future is dropped (it returned or was cancelled):
\* its locals go, and with them the semaphore permit it may hold
DropFuture(t) == [t EXCEPT !.held = 0, !.round = 0, !.branches = 0, !.plans = 0]

\* try_compact_partition returns res before the deadline
Return(t, res) == [DropFuture(t) EXCEPT !.pc = "record", !.outcome = Completed(res)]

\* mutant of timeout_with_progress_checking: the progress channel is not read
timeout_with_progress_checking_blind(progress) == NoWorkTimeOutError

\* timeout_with_progress_checking at the deadline: the value of the progress
\* channel decides between the two timeout outcomes
timeout_with_progress_checking(progress) ==
    IF progress THEN SomeWorkTryAgain ELSE NoWorkTimeOutError

\* the deadline passes while try_compact_partition is suspended
Cancel(t) ==
    [DropFuture(t) EXCEPT !.pc = "record", !.deadline = TRUE,
                          !.outcome = timeout_with_progress_checking(t.progress)]

\* mutant of compact_partition_res: every timeout is reported as an error
compact_partition_res_timeout_is_error(outcome) ==
    CASE outcome.tag \in {"NoWorkTimeOutError", "SomeWorkTryAgain"} ->
            Err("Timeout", "timeout without making any progress")
      [] OTHER -> outcome.val

\* compact_partition, the match on the timeout's outcome
compact_partition_res(outcome) ==
    CASE outcome.tag = "NoWorkTimeOutError" ->
            Err("Timeout", "timeout without making any progress")
      [] outcome.tag = "SomeWorkTryAgain" -> Ok
      [] OTHER -> outcome.val

\* mutant of Recorded: an error result leaves compact_partition unrecorded
Recorded_only_ok(t) ==
    IF compact_partition_res(t.outcome).ok
    THEN [t EXCEPT !.sink = Append(@, compact_partition_res(t.outcome)), !.pc = "clean"]
    ELSE [t EXCEPT !.pc = "clean"]

\* compact_partition: partition_done_sink.record(partition_id, res).await
Recorded(t) ==
    [t EXCEPT !.sink = Append(@, compact_partition_res(t.outcome)), !.pc = "clean"]

\* compact_partition ends: what is left of the invocation is what the sink got
Finished(t) ==
    [t EXCEPT !.pc = "done", !.progress = FALSE, !.committed = FALSE,
              !.deadline = FALSE, !.outcome = NoOutcome]

\* mutant of ToBranch: a round without a branch ends try_compact_partition
ToBranch_stops_when_empty(t, n) ==
    IF n = 0 THEN Return(t, Ok)
    ELSE [t EXCEPT !.branches = n - 1, !.pc = "post_filter"]

\* try_compact_partition at the top of `for branch in branches` with n
\* branches to go: with none the round ends and the next round_info is
\* awaited, else the next branch is classified and its filter awaited
ToBranch(t, n) ==
    IF n = 0 THEN [t EXCEPT !.branches = 0, !.pc = "round_info"]
    ELSE [t EXCEPT !.branches = n - 1, !.pc = "post_filter"]

\* run_plans at the top of `for plan_ir in plans` with n plans to go
ToPlan(t, n) ==
    IF n = 0 THEN [t EXCEPT !.plans = 0, !.pc = "upload"]
    ELSE [t EXCEPT !.plans = n, !.pc = "acquire"]

\* mutant of drop_permit: the permit outlives the job
drop_permit_kept(held) == held

\* execute_plan: drop(permit) once the job has been awaited
drop_permit(held) == 0

\* mutant of JobDone: the next plan is started before the permit of this one
\* is dropped
JobDone_overlaps(t) == ToPlan(t, t.plans - 1)

\* execute_plan after job.await succeeded
JobDone(t) == ToPlan([t EXCEPT !.held = drop_permit(@)], t.plans - 1)

\* mutant of Committed: the commit returns and no progress is signalled
Committed_silent(t) == ToBranch([t EXCEPT !.committed = TRUE], t.branches)

\* mutant of Committed: the result of send(true) is not looked at
Committed_ignores_send(t) ==
    ToBranch([t EXCEPT !.committed = TRUE, !.progress = t.receiver], t.branches)

\* what send(true) returns once the receiver is gone, boxed
SendError == Err("Unknown", "channel closed")

\* try_compact_partition after update_catalog: the commit has returned, then
\* transmit_progress_signal.send(true), whose error is returned
Committed(t) ==
    IF t.receiver
    THEN ToBranch([t EXCEPT !.committed = TRUE, !.progress = TRUE], t.branches)
    ELSE Return([t EXCEPT !.committed = TRUE], SendError)

Remaining == SubSeq(partition_stream, Len(tasks) + 1, Len(partition_stream))
InFlight == {i \in 1..Len(tasks) : tasks[i].pc # "done"}
PermitsAvailable == TotalPermits - SeqSum([i \in 1..Len(tasks) |-> tasks[i].held])

\* mutant of HasRoom: one future too many
HasRoom_off_by_one == Cardinality(InFlight) <= partition_concurrency

\* buffer_unordered(partition_concurrency): room for one more future
HasRoom == Cardinality(InFlight) < partition_concurrency

\* mutant of Exhausted: the futures in flight are not awaited
Exhausted_stream_only == Remaining = <<>>

\* collect(): the stream is exhausted and no future is in flight
Exhausted == Remaining = <<>> /\ InFlight = {}

SetTask(i, t) == tasks' = [tasks EXCEPT ![i] = t]

\* ------------------------------------------------- scheduler: Init, actions
InitFileVars ==
    /\ catalog = InitCatalog
    /\ next_id = Cardinality(InitCatalog) + 1
    /\ durable = {f.uuid : f \in InitCatalog}
    /\ pad = {}
    /\ locals = NoLocals

Init ==
    /\ partition_stream \in UNION {[1..n -> PartitionIds] : n \in 0..MaxStream}
    /\ partition_concurrency \in {1, 2}
    /\ tasks = <<>>
    /\ returned = FALSE
    /\ InitFileVars
    /\ ComponentsNotUsed

\* compact: buffer_unordered takes the next id of the stream while fewer than
\* partition_concurrency futures are in flight, and starts its compact_partition
compact_next ==
    /\ ~returned
    /\ Remaining # <<>>
    /\ HasRoom
    /\ tasks' = Append(tasks, NewTask(Head(Remaining)))
    /\ UNCHANGED <<component_vars, partition_stream, partition_concurrency, returned, file_vars>>

\* compact: collect() ends once the stream is exhausted and no future is left
compact_return ==
    /\ ~returned
    /\ Exhausted
    /\ returned' = TRUE
    /\ UNCHANGED <<component_vars, partition_stream, partition_concurrency, tasks, file_vars>>

\* a step of task i that touches nothing but the task
Step(i, t) ==
    /\ SetTask(i, t)
    /\ UNCHANGED <<component_vars, partition_stream, partition_concurrency, returned, file_vars>>

\* try_compact_partition: partition_files_source.fetch
fetch_files(i) ==
    /\ tasks[i].pc = "fetch_files"
    /\ Step(i, [tasks[i] EXCEPT !.pc = "fetch_info"])

\* try_compact_partition: partition_info_source.fetch(..).await?
fetch_partition_info(i) ==
    /\ tasks[i].pc = "fetch_info"
    /\ \/ Step(i, [tasks[i] EXCEPT !.pc = "round_info"])
       \/ \E e \in ComponentErrors : Step(i, Return(tasks[i], e))

\* try_compact_partition: round_info_source.calculate(..).await?
calculate_round_info(i) ==
    /\ tasks[i].pc = "round_info"
    /\ \/ Step(i, [tasks[i] EXCEPT !.pc = "partition_filter"])
       \/ \E e \in ComponentErrors : Step(i, Return(tasks[i], e))

\* try_compact_partition: partition_filter.apply(..).await?, then round_split,
\* divide_initial and the first branch up to its post-classification filter
partition_filter(i) ==
    /\ tasks[i].pc = "partition_filter"
    /\ \/ \E e \in ComponentErrors : Step(i, Return(tasks[i], e))
       \/ Step(i, Return(tasks[i], Ok))
       \/ \E n \in {0, 1, 2} :
             Step(i, ToBranch(tasks[i], n))

\* try_compact_partition: post_classification_partition_filter.apply(..).await?
post_classification_filter(i) ==
    /\ tasks[i].pc = "post_filter"
    /\ \/ \E e \in ComponentErrors : Step(i, Return(tasks[i], e))
       \/ Step(i, Return(tasks[i], Ok))
       \/ Step(i, [tasks[i] EXCEPT !.pc = "load"])

\* run_plans: load_to_scratchpad stages the inputs, ir_planner.create_plans
\* returns the plans, the PlanIR::None ones are filtered out
load_to_scratchpad(i) ==
    /\ tasks[i].pc = "load"
    /\ \E n \in PlanCounts : Step(i, ToPlan(tasks[i], n))

\* execute_plan: job_semaphore.acquire_many(permits) is granted
acquire_many(i) ==
    /\ tasks[i].pc = "acquire"
    /\ LET permits == PartitionPermits[tasks[i].pid]
       IN /\ permits <= PermitsAvailable
          /\ Step(i, [tasks[i] EXCEPT !.held = permits, !.pc = "plan"])

\* execute_plan: df_planner.plan(..).await? under the permit
df_plan(i) ==
    /\ tasks[i].pc = "plan"
    /\ \/ Step(i, [tasks[i] EXCEPT !.pc = "job"])
       \/ \E e \in ComponentErrors : Step(i, Return(tasks[i], e))

\* execute_plan: job.await, drop(permit), res?; run_plans extends
\* created_file_params and goes on to the next plan, or returns
job(i) ==
    /\ tasks[i].pc = "job"
    /\ \/ Step(i, JobDone(tasks[i]))
       \/ \E e \in ComponentErrors : Step(i, Return(tasks[i], e))

\* upload_files_to_object_store: scratchpad.make_public
upload(i) ==
    /\ tasks[i].pc = "upload"
    /\ Step(i, [tasks[i] EXCEPT !.pc = "clean_inputs"])

\* try_compact_partition: scratchpad_ctx.clean_from_scratchpad(&input_paths)
clean_from_scratchpad(i) ==
    /\ tasks[i].pc = "clean_inputs"
    /\ Step(i, [tasks[i] EXCEPT !.pc = "fetch_state"])

\* update_catalog: the partition's files are fetched again and compared with
\* the saved state (the result is only logged), then commit is called
fetch_and_save_parquet_file_state(i) ==
    /\ tasks[i].pc = "fetch_state"
    /\ Step(i, [tasks[i] EXCEPT !.pc = "commit"])

\* update_catalog: commit returns; try_compact_partition extends files_next,
\* sends the progress signal and goes on to the next branch or round
commit(i) ==
    /\ tasks[i].pc = "commit"
    /\ Step(i, Committed(tasks[i]))

\* timeout_with_progress_checking: the deadline passes while
\* try_compact_partition is suspended at one of its awaits
timeout(i) ==
    /\ tasks[i].pc \in TryPcs
    /\ Step(i, Cancel(tasks[i]))

\* compact_partition: partition_done_sink.record(partition_id, res)
record(i) ==
    /\ tasks[i].pc = "record"
    /\ Step(i, Recorded(tasks[i]))

\* compact_partition: scratchpad.clean(), and the function ends
clean(i) ==
    /\ tasks[i].pc = "clean"
    /\ Step(i, Finished(tasks[i]))

Next ==
    \/ compact_next
    \/ compact_return
    \/ \E i \in 1..Len(tasks) : fetch_files(i)
    \/ \E i \in 1..Len(tasks) : fetch_partition_info(i)
    \/ \E i \in 1..Len(tasks) : calculate_round_info(i)
    \/ \E i \in 1..Len(tasks) : partition_filter(i)
    \/ \E i \in 1..Len(tasks) : post_classification_filter(i)
    \/ \E i \in 1..Len(tasks) : load_to_scratchpad(i)
    \/ \E i \in 1..Len(tasks) : acquire_many(i)
    \/ \E i \in 1..Len(tasks) : df_plan(i)
    \/ \E i \in 1..Len(tasks) : job(i)
    \/ \E i \in 1..Len(tasks) : upload(i)
    \/ \E i \in 1..Len(tasks) : clean_from_scratchpad(i)
    \/ \E i \in 1..Len(tasks) : fetch_and_save_parquet_file_state(i)
    \/ \E i \in 1..Len(tasks) : commit(i)
    \/ \E i \in 1..Len(tasks) : timeout(i)
    \/ \E i \in 1..Len(tasks) : record(i)
    \/ \E i \in 1..Len(tasks) : clean(i)

Spec == Init /\ [][Next]_vars

\* ----------------------------------------------- components of one round
\* round_info_source.calculate: the start level is the lowest level present,
\* the target level is the start level or the next one
RoundTargetLevels(files) ==
    LET start == IF \E f \in files : f.level = 0 THEN 0
                 ELSE IF \E f \in files : f.level = 1 THEN 1 ELSE 2
    IN {start, IF start < 2 THEN start + 1 ELSE 2}

\* round_split.split: (files_now, files_later), any split of the files
RoundSplits(files) == {<<files \ later, later>> : later \in SUBSET files}

\* mutant of Divisions: the files may also be handed out twice, as two branches
Divisions_twice(files_now) ==
    IF files_now = {} THEN {<<>>}
    ELSE {<<files_now>>, <<files_now, files_now>>}

\* divide_initial.divide: files_now as a sequence of disjoint non-empty branches
Divisions(files_now) ==
    IF files_now = {} THEN {<<>>}
    ELSE {<<files_now>>}
         \cup {<<b, files_now \ b>> : b \in (SUBSET files_now) \ {{}, files_now}}

\* mutant of Classifications: a file to upgrade is also given to the plans
Classifications_upgrade_and_compact(branch) ==
    {[keep |-> {f \in branch : c[f] = "keep"},
      upgrade |-> {f \in branch : c[f] = "upgrade"},
      soc |-> {f \in branch : c[f] \in {"soc", "upgrade"}}] :
        c \in [branch -> {"keep", "upgrade", "soc"}]}

\* file_classifier.classify: every file of the branch goes to exactly one of
\* files_to_keep, upgrade and split_or_compact
Classifications(branch) ==
    {[keep |-> {f \in branch : c[f] = "keep"},
      upgrade |-> {f \in branch : c[f] = "upgrade"},
      soc |-> {f \in branch : c[f] = "soc"}] :
        c \in [branch -> {"keep", "upgrade", "soc"}]}

\* the file variables at the top of `for branch in branches`: with no branch
\* left files = files_next, else the branch's state is saved and the branch
\* is classified
NextBranch(l) ==
    IF l.branches = <<>>
    THEN {[l EXCEPT !.files = l.files_next, !.files_next = {}, !.saved = {},
                    !.current = {}, !.keep = {}, !.upgrade = {}, !.soc = {}, !.created = <<>>]}
    ELSE LET branch == Head(l.branches)
         IN {[l EXCEPT !.branches = Tail(l.branches),
                       !.saved = SavedParquetFileState(branch), !.current = {},
                       !.keep = c.keep, !.upgrade = c.upgrade, !.soc = c.soc,
                       !.created = <<>>] : c \in Classifications(branch)}

\* ------------------------------------------------------------- scratchpad
\* scratchpad.make_public: each staged output is copied to the durable store
\* under a new uuid, returned in the order of the paths given
make_public(paths) == [k \in 1..Len(paths) |-> PublicUuid(paths[k])]

\* mutant of upload_files_to_object_store: the params keep the staged uuid
upload_files_to_object_store_stale(created_file_params, output_uuids) ==
    created_file_params

\* upload_files_to_object_store: the params zipped with the uuids make_public
\* returned, each params' object_store_id replaced by its uuid
upload_files_to_object_store(created_file_params, output_uuids) ==
    LET zipped == IF Len(created_file_params) <= Len(output_uuids)
                  THEN Len(created_file_params) ELSE Len(output_uuids)
    IN [k \in 1..zipped |-> [created_file_params[k] EXCEPT !.uuid = output_uuids[k]]]

\* scratchpad.clean(): everything is evicted
CleanedPad(objects) == {}

\* ---------------------------------------------------------------- catalog
\* commit.commit: one transaction that soft-deletes, upgrades and creates, and
\* returns the ids of the created files in the order of the params
CreatedIds(n) == [k \in 1..n |-> next_id + k - 1]

CommitCatalog(p, files_to_delete, files_to_upgrade, file_params_to_create, target_level) ==
    LET del == {f.id : f \in files_to_delete}
        upg == {f.id : f \in files_to_upgrade}
        ids == CreatedIds(Len(file_params_to_create))
    IN {IF f.id \in upg /\ f.pid = p THEN [f EXCEPT !.level = target_level] ELSE f :
            f \in {g \in catalog : ~(g.pid = p /\ g.id \in del)}}
       \cup {[id |-> ids[k], pid |-> p, uuid |-> file_params_to_create[k].uuid,
              level |-> file_params_to_create[k].level] :
                k \in 1..Len(file_params_to_create)}

\* mutant of CreatedFiles: the ids are paired with the params back to front
CreatedFiles_crossed(file_params_to_create, created_ids) ==
    LET zipped == IF Len(file_params_to_create) <= Len(created_ids)
                  THEN Len(file_params_to_create) ELSE Len(created_ids)
    IN [k \in 1..zipped |->
          [id |-> created_ids[zipped + 1 - k], uuid |-> file_params_to_create[k].uuid,
           level |-> file_params_to_create[k].level]]

\* update_catalog: the created params zipped with the ids commit returned,
\* ParquetFile::from_params(params, id) for each pair, in the order of the
\* params; zip stops at the shorter of the two
CreatedFiles(file_params_to_create, created_ids) ==
    LET zipped == IF Len(file_params_to_create) <= Len(created_ids)
                  THEN Len(file_params_to_create) ELSE Len(created_ids)
    IN [k \in 1..zipped |->
          [id |-> created_ids[k], uuid |-> file_params_to_create[k].uuid,
           level |-> file_params_to_create[k].level]]

\* mutant of UpgradedFiles: the upgraded file is returned as a fresh, empty file
UpgradedFiles_reset(files_to_upgrade, target_level) ==
    {[f EXCEPT !.level = target_level, !.row_count = 0] : f \in files_to_upgrade}

\* mutant of UpgradedFiles: an upgraded file is labelled L0 again
UpgradedFiles_to_l0(files_to_upgrade, target_level) ==
    {[f EXCEPT !.level = 0] : f \in files_to_upgrade}

\* update_catalog: the upgraded files, their compaction_level set to the target
UpgradedFiles(files_to_upgrade, target_level) ==
    {[f EXCEPT !.level = target_level] : f \in files_to_upgrade}

\* ------------------------------------ one invocation with its files: actions
FilesInit ==
    /\ partition_stream \in {<<p>> : p \in PartitionIds}
    /\ partition_concurrency = 1
    /\ tasks = <<>>
    /\ returned = FALSE
    /\ InitFileVars
    /\ ComponentsNotUsed

\* a step of task i that changes the file variables of try_compact_partition
LocalStep(i, t, l) ==
    /\ SetTask(i, t)
    /\ locals' = l
    /\ UNCHANGED <<component_vars, partition_stream, partition_concurrency, returned,
                   catalog, next_id, durable, pad>>

\* try_compact_partition returns: its file variables are dropped
FilesReturn(i, res) == LocalStep(i, Return(tasks[i], res), Dropped(locals))

files_fetch_files(i) ==
    /\ tasks[i].pc = "fetch_files"
    /\ LocalStep(i, [tasks[i] EXCEPT !.pc = "fetch_info"],
                 [locals EXCEPT !.files = CatalogFiles(tasks[i].pid)])

files_fetch_partition_info(i) ==
    /\ tasks[i].pc = "fetch_info"
    /\ \/ Step(i, [tasks[i] EXCEPT !.pc = "round_info"])
       \/ \E e \in ComponentErrors : FilesReturn(i, e)

files_calculate_round_info(i) ==
    /\ tasks[i].pc = "round_info"
    /\ \/ \E tl \in RoundTargetLevels(locals.files) :
             LocalStep(i, [tasks[i] EXCEPT !.pc = "partition_filter"],
                       [locals EXCEPT !.target_level = tl])
       \/ \E e \in ComponentErrors : FilesReturn(i, e)

files_partition_filter(i) ==
    /\ tasks[i].pc = "partition_filter"
    /\ \/ \E e \in ComponentErrors : FilesReturn(i, e)
       \/ FilesReturn(i, Ok)
       \/ /\ tasks[i].round < MaxRounds
          /\ \E split \in RoundSplits(locals.files) :
             \E branches \in Divisions(split[1]) :
             \E l \in NextBranch([locals EXCEPT !.files = {}, !.files_next = split[2],
                                                !.branches = branches]) :
                LocalStep(i, ToBranch([tasks[i] EXCEPT !.round = @ + 1], Len(branches)), l)

\* mutant of files_post_classification_filter: a rejected branch is skipped
\* and the loop goes on with the next branch
files_post_classification_filter_skips(i) ==
    /\ tasks[i].pc = "post_filter"
    /\ \/ \E e \in ComponentErrors : FilesReturn(i, e)
       \/ \E l \in NextBranch(locals) :
             LocalStep(i, ToBranch(tasks[i], tasks[i].branches), l)
       \/ Step(i, [tasks[i] EXCEPT !.pc = "load"])

\* post_classification_partition_filter.apply(..).await?: an error, a
\* rejection (return Ok(())) or the branch goes on to run_plans
files_post_classification_filter(i) ==
    /\ tasks[i].pc = "post_filter"
    /\ \/ \E e \in ComponentErrors : FilesReturn(i, e)
       \/ FilesReturn(i, Ok)
       \/ Step(i, [tasks[i] EXCEPT !.pc = "load"])

files_load_to_scratchpad(i) ==
    /\ tasks[i].pc = "load"
    /\ \E n \in PlanCounts : SetTask(i, ToPlan(tasks[i], n))
    /\ pad' = pad \cup {StagedInput(f.uuid) : f \in locals.soc}
    /\ UNCHANGED <<component_vars, partition_stream, partition_concurrency, returned,
                   catalog, next_id, durable, locals>>

files_df_plan(i) ==
    /\ tasks[i].pc = "plan"
    /\ \/ Step(i, [tasks[i] EXCEPT !.pc = "job"])
       \/ \E e \in ComponentErrors : FilesReturn(i, e)

\* mutant of files_job: a failed job ends the partition with Ok
files_job_error_is_ok(i) ==
    /\ tasks[i].pc = "job"
    /\ \/ LET out == StagedOutput(locals.nout + 1)
          IN /\ SetTask(i, JobDone(tasks[i]))
             /\ pad' = pad \cup {out}
             /\ locals' = [locals EXCEPT
                             !.nout = @ + 1,
                             !.created = Append(@, [uuid |-> out, level |-> locals.target_level])]
             /\ UNCHANGED <<component_vars, partition_stream, partition_concurrency, returned,
                            catalog, next_id, durable>>
       \/ FilesReturn(i, Ok)

\* the job stages one output file in the scratchpad and returns its params
files_job(i) ==
    /\ tasks[i].pc = "job"
    /\ \/ LET out == StagedOutput(locals.nout + 1)
          IN /\ SetTask(i, JobDone(tasks[i]))
             /\ pad' = pad \cup {out}
             /\ locals' = [locals EXCEPT
                             !.nout = @ + 1,
                             !.created = Append(@, [uuid |-> out, level |-> locals.target_level])]
             /\ UNCHANGED <<component_vars, partition_stream, partition_concurrency, returned,
                            catalog, next_id, durable>>
       \/ \E e \in ComponentErrors : FilesReturn(i, e)

files_upload(i) ==
    /\ tasks[i].pc = "upload"
    /\ LET output_uuids == make_public([k \in 1..Len(locals.created) |-> locals.created[k].uuid])
       IN /\ durable' = durable \cup Range(output_uuids)
          /\ locals' = [locals EXCEPT
                          !.created = upload_files_to_object_store(@, output_uuids)]
    /\ SetTask(i, [tasks[i] EXCEPT !.pc = "clean_inputs"])
    /\ UNCHANGED <<component_vars, partition_stream, partition_concurrency, returned, catalog, next_id, pad>>

files_clean_from_scratchpad(i) ==
    /\ tasks[i].pc = "clean_inputs"
    /\ SetTask(i, [tasks[i] EXCEPT !.pc = "fetch_state"])
    /\ pad' = pad \ {StagedInput(s[2]) : s \in locals.saved}
    /\ UNCHANGED <<component_vars, partition_stream, partition_concurrency, returned,
                   catalog, next_id, durable, locals>>

\* update_catalog: the partition's files are fetched again and their state is
\* compared with the saved one: changed_files_filter.apply, its result ignored
files_fetch_and_save_parquet_file_state(i) ==
    /\ tasks[i].pc = "fetch_state"
    /\ LocalStep(i, [tasks[i] EXCEPT !.pc = "commit"],
                 [locals EXCEPT !.current = SavedParquetFileState(CatalogFiles(tasks[i].pid))])

\* mutant of files_commit: nothing is committed when a saved file has changed
files_commit_unless_changed(i) ==
    /\ tasks[i].pc = "commit"
    /\ LET t == tasks[i]
           same == locals.saved \subseteq locals.current
           created_ids == CreatedIds(Len(locals.created))
           created_files == Range(CreatedFiles(locals.created, created_ids))
           upgraded_files == UpgradedFiles(locals.upgrade, locals.target_level)
       IN /\ catalog' = IF same THEN CommitCatalog(t.pid, locals.soc, locals.upgrade,
                                                   locals.created, locals.target_level)
                         ELSE catalog
          /\ next_id' = IF same THEN next_id + Len(locals.created) ELSE next_id
          /\ \E l \in NextBranch([locals EXCEPT
                        !.commits = Append(@, [round |-> t.round,
                                               delete |-> {f.id : f \in locals.soc},
                                               upgrade |-> {f.id : f \in locals.upgrade}]),
                        !.files_next = @ \cup (IF same THEN created_files \cup upgraded_files
                                                ELSE {})
                                         \cup locals.keep]) :
                locals' = IF t.receiver THEN l ELSE Dropped(l)
          /\ SetTask(i, Committed(t))
    /\ UNCHANGED <<component_vars, partition_stream, partition_concurrency, returned, durable, pad>>

\* mutant of files_commit: files_to_keep is not carried into files_next
files_commit_drops_keep(i) ==
    /\ tasks[i].pc = "commit"
    /\ LET t == tasks[i]
           created_ids == CreatedIds(Len(locals.created))
           created_files == Range(CreatedFiles(locals.created, created_ids))
           upgraded_files == UpgradedFiles(locals.upgrade, locals.target_level)
       IN /\ catalog' = CommitCatalog(t.pid, locals.soc, locals.upgrade,
                                      locals.created, locals.target_level)
          /\ next_id' = next_id + Len(locals.created)
          /\ \E l \in NextBranch([locals EXCEPT
                        !.commits = Append(@, [round |-> t.round,
                                               delete |-> {f.id : f \in locals.soc},
                                               upgrade |-> {f.id : f \in locals.upgrade}]),
                        !.files_next = @ \cup created_files \cup upgraded_files]) :
                locals' = IF t.receiver THEN l ELSE Dropped(l)
          /\ SetTask(i, Committed(t))
    /\ UNCHANGED <<component_vars, partition_stream, partition_concurrency, returned, durable, pad>>

\* update_catalog and the end of the branch: commit.commit, the created and
\* the upgraded files, files_next.extend, send(true), then the next branch or,
\* after the last one, files = files_next
files_commit(i) ==
    /\ tasks[i].pc = "commit"
    /\ LET t == tasks[i]
           created_ids == CreatedIds(Len(locals.created))
           created_files == Range(CreatedFiles(locals.created, created_ids))
           upgraded_files == UpgradedFiles(locals.upgrade, locals.target_level)
       IN /\ catalog' = CommitCatalog(t.pid, locals.soc, locals.upgrade,
                                      locals.created, locals.target_level)
          /\ next_id' = next_id + Len(locals.created)
          /\ \E l \in NextBranch([locals EXCEPT
                        !.commits = Append(@, [round |-> t.round,
                                               delete |-> {f.id : f \in locals.soc},
                                               upgrade |-> {f.id : f \in locals.upgrade}]),
                        !.files_next = @ \cup created_files \cup upgraded_files
                                         \cup locals.keep]) :
                locals' = IF t.receiver THEN l ELSE Dropped(l)
          /\ SetTask(i, Committed(t))
    /\ UNCHANGED <<component_vars, partition_stream, partition_concurrency, returned, durable, pad>>

files_timeout(i) ==
    /\ tasks[i].pc \in TryPcs
    /\ LocalStep(i, Cancel(tasks[i]), Dropped(locals))

\* mutant of files_clean: after a timeout the scratchpad is left as it is
files_clean_unless_timeout(i) ==
    /\ tasks[i].pc = "clean"
    /\ SetTask(i, Finished(tasks[i]))
    /\ pad' = IF tasks[i].deadline THEN pad ELSE CleanedPad(pad)
    /\ UNCHANGED <<component_vars, partition_stream, partition_concurrency, returned,
                   catalog, next_id, durable, locals>>

\* compact_partition: scratchpad.clean(), and the function ends
files_clean(i) ==
    /\ tasks[i].pc = "clean"
    /\ SetTask(i, Finished(tasks[i]))
    /\ pad' = CleanedPad(pad)
    /\ UNCHANGED <<component_vars, partition_stream, partition_concurrency, returned,
                   catalog, next_id, durable, locals>>

FilesNext ==
    \/ compact_next
    \/ compact_return
    \/ \E i \in 1..Len(tasks) : files_fetch_files(i)
    \/ \E i \in 1..Len(tasks) : files_fetch_partition_info(i)
    \/ \E i \in 1..Len(tasks) : files_calculate_round_info(i)
    \/ \E i \in 1..Len(tasks) : files_partition_filter(i)
    \/ \E i \in 1..Len(tasks) : files_post_classification_filter(i)
    \/ \E i \in 1..Len(tasks) : files_load_to_scratchpad(i)
    \/ \E i \in 1..Len(tasks) : acquire_many(i)
    \/ \E i \in 1..Len(tasks) : files_df_plan(i)
    \/ \E i \in 1..Len(tasks) : files_job(i)
    \/ \E i \in 1..Len(tasks) : files_upload(i)
    \/ \E i \in 1..Len(tasks) : files_clean_from_scratchpad(i)
    \/ \E i \in 1..Len(tasks) : files_fetch_and_save_parquet_file_state(i)
    \/ \E i \in 1..Len(tasks) : files_commit(i)
    \/ \E i \in 1..Len(tasks) : files_timeout(i)
    \/ \E i \in 1..Len(tasks) : record(i)
    \/ \E i \in 1..Len(tasks) : files_clean(i)

FilesSpec == FilesInit /\ [][FilesNext]_vars

\* ------------------------------------- update_catalog on files to upgrade
\* ParquetFile values with the fields the catalog keeps of a file
ParquetFiles ==
    [id : {1, 2}, uuid : {InitUuid(1)}, level : {0, 1}, min_time : {0},
     max_time : {10, 20}, row_count : {1, 2}, file_size_bytes : {100, 200}]

\* update_catalog is called with some files_to_upgrade (at most two files, no
\* id twice), some file_params_to_create (at most two, uploaded to the object
\* store at the target level) and a target_level; the catalog has handed out
\* the ids below next_id
UpgradeInit ==
    /\ LET UpgradeInputs ==
               {{}} \cup {{f} : f \in ParquetFiles}
                    \cup {{f, g} : f \in {h \in ParquetFiles : h.id = 1},
                                   g \in {h \in ParquetFiles : h.id = 2}}
           Params(tl) == {[uuid |-> PublicUuid(StagedOutput(k)), level |-> tl] : k \in {1, 2}}
       IN \E tl \in {1, 2} :
             locals \in {[NoLocals EXCEPT !.upgrade = S, !.target_level = tl, !.created = c] :
                           S \in UpgradeInputs,
                           c \in {<<>>} \cup {<<a>> : a \in Params(tl)}
                                        \cup {<<a, b>> : a \in Params(tl), b \in Params(tl)}}
    /\ partition_stream = <<>> /\ partition_concurrency = 1
    /\ tasks = <<>> /\ returned = FALSE
    /\ catalog = {} /\ next_id = 3 /\ durable = {} /\ pad = {}
    /\ ComponentsNotUsed

\* update_catalog returns created_file_params (the name is rebound in the
\* source: the params go in, the files with their ids come out) and
\* upgraded_files (here kept in files_next)
update_catalog_upgraded ==
    /\ ~returned
    /\ returned' = TRUE
    /\ locals' = [locals EXCEPT
                    !.files_next = UpgradedFiles(locals.upgrade, locals.target_level),
                    !.created = CreatedFiles(@, CreatedIds(Len(@)))]
    /\ next_id' = next_id + Len(locals.created)
    /\ UNCHANGED <<component_vars, partition_stream, partition_concurrency, tasks,
                   catalog, durable, pad>>

UpgradeNext == update_catalog_upgraded

UpgradeSpec == UpgradeInit /\ [][UpgradeNext]_vars

\* ------------------------------------ one commit on files of mixed levels
\* round_info_source.calculate: the start level is the lowest level present
RoundStartLevel(files) ==
    IF \E f \in files : f.level = 0 THEN 0
    ELSE IF \E f \in files : f.level = 1 THEN 1 ELSE 2

\* file_classifier.classify with the levels it looks at: a file above the
\* target level is kept, only files at the start level are upgraded
LevelClassifications(branch, start_level, target_level) ==
    {c \in Classifications(branch) :
        /\ \A f \in branch : f.level > target_level => f \in c.keep
        /\ \A f \in c.upgrade : f.level = start_level}

\* the published params of n job outputs at the target level
LevelCreated(n, target_level) ==
    [k \in 1..n |-> [uuid |-> PublicUuid(StagedOutput(k)), level |-> target_level]]

\* a compact_partition invocation about to commit the only branch of a round;
\* the partition holds up to three files at any levels
LevelInit ==
    /\ partition_stream = <<1>> /\ partition_concurrency = 1 /\ returned = FALSE
    /\ ComponentsNotUsed
    /\ \E files \in UNION {{{[id |-> k, uuid |-> InitUuid(k), level |-> lv[k]] : k \in 1..n} :
                                lv \in [1..n -> {0, 1, 2}]} : n \in 1..3} :
       \E tl \in RoundTargetLevels(files) :
       \E c \in LevelClassifications(files, RoundStartLevel(files), tl) :
       \E n \in IF c.soc = {} THEN {0} ELSE PlanCounts :
          /\ catalog = {[id |-> f.id, pid |-> 1, uuid |-> f.uuid, level |-> f.level] :
                           f \in files}
          /\ next_id = Cardinality(files) + 1
          /\ durable = {f.uuid : f \in files} \cup Range(LevelCreated(n, tl))
          /\ pad = {StagedOutput(k) : k \in 1..n}
          /\ locals = [NoLocals EXCEPT
                          !.saved = SavedParquetFileState(files),
                          !.current = SavedParquetFileState(files),
                          !.target_level = tl,
                          !.keep = c.keep, !.upgrade = c.upgrade, !.soc = c.soc,
                          !.created = LevelCreated(n, tl), !.nout = n]
          /\ tasks = <<[NewTask(1) EXCEPT !.pc = "commit", !.round = 1]>>

LevelNext == \E i \in 1..Len(tasks) : files_commit(i)

LevelSpec == LevelInit /\ [][LevelNext]_vars

\* ------------------------------- one invocation past its first commit
\* a compact_partition invocation about to commit the first branch of its
\* first round, in which the L0 file 1 is upgraded to L1; the receiver of the
\* progress channel is kept, or the caller has dropped it.  Either file 1 is
\* the partition's only file, or the partition holds a second L0 file, which
\* is the round's second branch.  With one file the rounds counted against
\* MaxRounds are those started from here on; with two files the round in
\* progress is the last one, which keeps the files of the later rounds few.
RoundsInit ==
    /\ partition_stream = <<1>> /\ partition_concurrency = 1 /\ returned = FALSE
    /\ ComponentsNotUsed
    /\ \E n \in {1, 2}, receiver \in BOOLEAN :
          LET files == {[id |-> k, uuid |-> InitUuid(k), level |-> 0] : k \in 1..n}
              branch == {f \in files : f.id = 1}
          IN /\ catalog = {[id |-> f.id, pid |-> 1, uuid |-> f.uuid, level |-> f.level] :
                              f \in files}
             /\ next_id = n + 1
             /\ durable = {f.uuid : f \in files}
             /\ pad = {}
             /\ locals = [NoLocals EXCEPT
                             !.branches = IF n = 2 THEN <<files \ branch>> ELSE <<>>,
                             !.saved = SavedParquetFileState(branch),
                             !.current = SavedParquetFileState(files),
                             !.target_level = 1,
                             !.upgrade = branch]
             /\ tasks = <<[NewTask(1) EXCEPT !.pc = "commit",
                                              !.receiver = receiver,
                                              !.round = IF n = 2 THEN MaxRounds ELSE 0,
                                              !.branches = n - 1]>>

\* the invocation goes on as in FilesSpec
RoundsNext ==
    \/ compact_return
    \/ \E i \in 1..Len(tasks) : files_calculate_round_info(i)
    \/ \E i \in 1..Len(tasks) : files_partition_filter(i)
    \/ \E i \in 1..Len(tasks) : files_post_classification_filter(i)
    \/ \E i \in 1..Len(tasks) : files_load_to_scratchpad(i)
    \/ \E i \in 1..Len(tasks) : acquire_many(i)
    \/ \E i \in 1..Len(tasks) : files_df_plan(i)
    \/ \E i \in 1..Len(tasks) : files_job(i)
    \/ \E i \in 1..Len(tasks) : files_upload(i)
    \/ \E i \in 1..Len(tasks) : files_clean_from_scratchpad(i)
    \/ \E i \in 1..Len(tasks) : files_fetch_and_save_parquet_file_state(i)
    \/ \E i \in 1..Len(tasks) : files_commit(i)
    \/ \E i \in 1..Len(tasks) : files_timeout(i)
    \/ \E i \in 1..Len(tasks) : record(i)
    \/ \E i \in 1..Len(tasks) : files_clean(i)

RoundsSpec == RoundsInit /\ [][RoundsNext]_vars

\* ------------------------------------------------ divide_initial.divide
\* mutant of TimeDivisions: the time ranges are not looked at
TimeDivisions_any(files_now) == Divisions(files_now)

\* divide_initial.divide: the divisions of files_now in which no file of one
\* branch overlaps a file of another
TimeDivisions(files_now) ==
    {d \in Divisions(files_now) :
        \A a, b \in 1..Len(d) :
            a # b => \A f \in d[a], g \in d[b] :
                         ~(f.min_time <= g.max_time /\ g.min_time <= f.max_time)}

\* try_compact_partition is about to divide files_now: up to four L0 files,
\* each with one of the time ranges [min_time, max_time]
DivideInit ==
    /\ LET TimeRanges == {<<0, 10>>, <<5, 20>>, <<25, 30>>, <<40, 50>>}
           DivideInputs ==
               UNION {{{[id |-> k, uuid |-> InitUuid(k), level |-> 0,
                         min_time |-> r[k][1], max_time |-> r[k][2]] : k \in 1..n} :
                          r \in [1..n -> TimeRanges]} : n \in 1..4}
       IN locals \in {[NoLocals EXCEPT !.files = files_now] : files_now \in DivideInputs}
    /\ partition_stream = <<>> /\ partition_concurrency = 1
    /\ tasks = <<>> /\ returned = FALSE
    /\ catalog = {} /\ next_id = 1 /\ durable = {} /\ pad = {}
    /\ ComponentsNotUsed

\* divide_initial.divide(files_now, round_info) returns the branches
divide_initial ==
    /\ ~returned
    /\ returned' = TRUE
    /\ \E d \in TimeDivisions(locals.files) : locals' = [locals EXCEPT !.branches = d]
    /\ UNCHANGED <<component_vars, partition_stream, partition_concurrency, tasks,
                   catalog, next_id, durable, pad>>

DivideNext == divide_initial

DivideSpec == DivideInit /\ [][DivideNext]_vars

\* ------------------------------------- partition_done_sink/metrics.rs
\* record calls one MetricsPartitionDoneSinkWrapper receives
MaxRecords == 4

\* ErrorKind::variants(): the closed taxonomy of error kinds
ErrorKindVariants == {"ObjectStore", "Timeout", "Catalog", "Planner", "OutOfMemory", "Unknown"}

\* ErrorKindExt::classify: the kind an error carries
classify(e) == e.kind

\* the results handed to record: Ok(()), a plain message, an object store error

\* the driver is not part of the specification at hand
DriverNotUsed ==
    /\ partition_stream = <<>> /\ partition_concurrency = 1
    /\ tasks = <<>> /\ returned = FALSE
    /\ catalog = {} /\ next_id = 1 /\ durable = {} /\ pad = {} /\ locals = NoLocals

\* MetricsPartitionDoneSinkWrapper::new: every counter registered at zero.
\* calls is the history of record calls, forwarding the calls at the await
\* of inner.record, inner what the inner sink was handed, in order.
MetricsInit ==
    /\ metrics_sink = [ok_counter |-> 0,
                       error_counter |-> [k \in ErrorKindVariants |-> 0],
                       calls |-> <<>>, forwarding |-> <<>>, inner |-> <<>>]
    /\ permit_call = NotUsed /\ literal = NotUsed
    /\ persister = NotUsed /\ server = NotUsed
    /\ planner = NotUsed
    /\ DriverNotUsed

\* mutant of metrics_record: every result is counted as a success
metrics_record_all_ok(partition, res) ==
    /\ Len(metrics_sink.calls) < MaxRecords
    /\ metrics_sink' = [metrics_sink EXCEPT
                           !.ok_counter = @ + 1,
                           !.calls = Append(@, <<partition, res>>),
                           !.forwarding = Append(@, <<partition, res>>)]
    /\ UNCHANGED <<driver_vars, permit_call, literal, persister, server, planner>>

\* record up to the await of inner.record: the counter of the result is
\* incremented
metrics_record(partition, res) ==
    /\ Len(metrics_sink.calls) < MaxRecords
    /\ metrics_sink' =
          IF res.ok
          THEN [metrics_sink EXCEPT
                   !.ok_counter = @ + 1,
                   !.calls = Append(@, <<partition, res>>),
                   !.forwarding = Append(@, <<partition, res>>)]
          ELSE [metrics_sink EXCEPT
                   !.error_counter[classify(res)] = @ + 1,
                   !.calls = Append(@, <<partition, res>>),
                   !.forwarding = Append(@, <<partition, res>>)]
    /\ UNCHANGED <<driver_vars, permit_call, literal, persister, server, planner>>

\* self.inner.record(partition, res).await of one of the calls in flight
metrics_forward(n) ==
    /\ n \in 1..Len(metrics_sink.forwarding)
    /\ metrics_sink' = [metrics_sink EXCEPT
                           !.inner = Append(@, metrics_sink.forwarding[n]),
                           !.forwarding = SubSeq(@, 1, n - 1) \o SubSeq(@, n + 1, Len(@))]
    /\ UNCHANGED <<driver_vars, permit_call, literal, persister, server, planner>>

MetricsNext ==
    \/ \E partition \in PartitionIds, res \in {Ok, Err("Unknown", "msg"),
                                            Err("ObjectStore", "Operation not yet implemented.")} :
          metrics_record(partition, res)
    \/ \E n \in 1..MaxRecords : metrics_forward(n)

MetricsSpec == MetricsInit /\ [][MetricsNext]_vars

\* ------------------------------------------------ compute_permits, called
\* largest column count below the huge one
MaxColumns == 120

\* total_permits and columns of the calls
PermitTotals == {0, 1, 2, 3, 10, 64, 100, 500, 1000, 2000}
PermitColumns == (0..MaxColumns) \cup {10000}

\* compute_permits is about to be called: with a total that fits a u32 and
\* any of the columns, or with a total of 2^32 or 2^32 + 5 permits (a usize
\* of 64 bits) and columns that keep the result below 2^31
PermitInit ==
    /\ permit_call \in
          {[total_permits |-> [hi |-> 0, lo |-> t], columns |-> c, permits |-> 0,
            returned |-> FALSE] : t \in PermitTotals, c \in PermitColumns}
          \cup {[total_permits |-> [hi |-> 1, lo |-> t], columns |-> c, permits |-> 0,
                  returned |-> FALSE] : t \in {0, 5}, c \in {0, 1, 50, 70, 100, 10000}}
    /\ metrics_sink = NotUsed /\ literal = NotUsed
    /\ persister = NotUsed /\ server = NotUsed
    /\ planner = NotUsed
    /\ DriverNotUsed

\* execute_plan: let permits = compute_permits(total_permits, columns)
compute_permits_call ==
    /\ ~permit_call.returned
    /\ permit_call' = [permit_call EXCEPT
                          !.returned = TRUE,
                          !.permits = compute_permits(permit_call.total_permits,
                                                      permit_call.columns)]
    /\ UNCHANGED <<driver_vars, metrics_sink, literal, persister, server, planner>>

PermitNext == compute_permits_call

PermitSpec == PermitInit /\ [][PermitNext]_vars

\* what compute_permits returns for the totals that fit a u32
PermitTable ==
    [t \in PermitTotals |->
        [c \in PermitColumns |-> compute_permits([hi |-> 0, lo |-> t], c)]]

\* --------------------------------- influxdb_influxql_parser literal.rs
\* An i64 of nanoseconds is kept as [s, ns]: whole seconds and the
\* nanoseconds below one second, so that weeks of nanoseconds stay within
\* the integers of the checker.
NANOS_PER_MICRO == 1000
NANOS_PER_MILLI == 1000 * NANOS_PER_MICRO
NANOS_PER_SEC == 1000 * NANOS_PER_MILLI
Nanos(s, ns) == [s |-> s, ns |-> ns]
NANOS_PER_MIN == Nanos(60, 0)
NANOS_PER_HOUR == Nanos(60 * 60, 0)
NANOS_PER_DAY == Nanos(24 * 60 * 60, 0)
NANOS_PER_WEEK == Nanos(7 * 24 * 60 * 60, 0)

DIVISORS ==
    << <<NANOS_PER_WEEK, "w">>, <<NANOS_PER_DAY, "d">>, <<NANOS_PER_HOUR, "h">>,
       <<NANOS_PER_MIN, "m">>, <<Nanos(1, 0), "s">>, <<Nanos(0, NANOS_PER_MILLI), "ms">>,
       <<Nanos(0, NANOS_PER_MICRO), "us">>, <<Nanos(0, 1), "ns">> >>

\* single_duration: the value of one fragment <<v, unit>> in nanoseconds,
\* v * div for the divisor of the unit
single_duration(fragment) ==
    LET v == fragment[1]
        div == (CHOOSE d \in Range(DIVISORS) : d[2] = fragment[2])[1]
    IN IF div.s > 0
       THEN Nanos(v * div.s, 0)
       ELSE Nanos((v * div.ns) \div NANOS_PER_SEC, (v * div.ns) % NANOS_PER_SEC)

\* duration: fold_many1(single_duration, || 0, |acc, fragment| acc + fragment)
RECURSIVE duration(_)
duration(i) ==
    IF i = <<>>
    THEN Nanos(0, 0)
    ELSE LET a == duration(SubSeq(i, 1, Len(i) - 1))
             b == single_duration(i[Len(i)])
         IN Nanos(a.s + b.s + (a.ns + b.ns) \div NANOS_PER_SEC,
                  (a.ns + b.ns) % NANOS_PER_SEC)

\* Display for Duration, the loop from the k-th divisor on: what is written
\* for the rest i, as fragments <<units, unit>>
RECURSIVE DisplayFrom(_, _, _)
DisplayFrom(self, i, k) ==
    IF k > Len(DIVISORS)
    THEN <<>>
    ELSE LET div == DIVISORS[k][1]
             \* self.0 > *div
             greater == self.s > div.s \/ (self.s = div.s /\ self.ns > div.ns)
             \* i / div
             units == IF div.s > 0
                      THEN i.s \div div.s
                      ELSE i.s * (NANOS_PER_SEC \div div.ns) + i.ns \div div.ns
             \* i -= units * div
             rest == IF div.s > 0
                     THEN Nanos(i.s - units * div.s, i.ns)
                     ELSE Nanos(i.s - units \div (NANOS_PER_SEC \div div.ns),
                                i.ns - (units % (NANOS_PER_SEC \div div.ns)) * div.ns)
         IN IF greater /\ units > 0
            THEN << <<units, DIVISORS[k][2]>> >> \o DisplayFrom(self, rest, k + 1)
            ELSE DisplayFrom(self, i, k + 1)

\* Display for Duration
Display(d) ==
    IF d = Nanos(0, 0) THEN << <<0, "s">> >> ELSE DisplayFrom(d, d, 1)

\* the most fragments of a literal
MaxFragments == 2

\* the duration literals parsed: all short ones and the literals of
\* test_display_duration
Literals ==
    LET Fragments == {<<v, u[2]>> : v \in {0, 1, 5, 60, 1000}, u \in Range(DIVISORS)}
    IN UNION {[1..n -> Fragments] : n \in 1..MaxFragments}
         \cup {<< <<3, "w">>, <<2, "h">>, <<15, "ms">> >>,
               << <<5, "s">>, <<5, "s">>, <<5, "s">>, <<5, "s">>, <<5, "s">> >>,
               << <<20, "w">>, <<6, "d">>, <<13, "h">>, <<11, "m">>, <<10, "s">>,
                  <<9, "ms">>, <<8, "us">>, <<500, "ns">> >>}

\* a literal is about to be parsed
DurationInit ==
    /\ literal \in {[i |-> l, pc |-> "parse", d |-> Nanos(0, 0), display |-> <<>>,
                        again |-> [ok |-> FALSE, rest |-> <<>>, d |-> Nanos(0, 0)]] :
                       l \in Literals}
    /\ metrics_sink = NotUsed /\ permit_call = NotUsed
    /\ persister = NotUsed /\ server = NotUsed
    /\ planner = NotUsed
    /\ DriverNotUsed

\* let (_, d) = duration(i).unwrap()
duration_parse ==
    /\ literal.pc = "parse"
    /\ literal' = [literal EXCEPT !.pc = "display", !.d = duration(literal.i)]
    /\ UNCHANGED <<driver_vars, metrics_sink, permit_call, persister, server, planner>>

\* let got = format!("{}", d)
duration_display ==
    /\ literal.pc = "display"
    /\ literal' = [literal EXCEPT !.pc = "done", !.display = Display(literal.d)]
    /\ UNCHANGED <<driver_vars, metrics_sink, permit_call, persister, server, planner>>

\* duration(&got): fold_many1 fails when not even one fragment is parsed, and
\* otherwise returns what is left of the text with the sum of the fragments
duration_reparse ==
    /\ literal.pc = "done"
    /\ literal' = [literal EXCEPT
                      !.pc = "reparsed",
                      !.again = IF literal.display = <<>>
                                THEN [ok |-> FALSE, rest |-> <<>>, d |-> Nanos(0, 0)]
                                ELSE [ok |-> TRUE, rest |-> <<>>, d |-> duration(literal.display)]]
    /\ UNCHANGED <<driver_vars, metrics_sink, permit_call, persister, server, planner>>

DurationNext == duration_parse \/ duration_display \/ duration_reparse

DurationSpec == DurationInit /\ [][DurationNext]_vars

\* ------------------------------------- ingester2 persist/hot_partitions.rs
\* writes one partition receives
MaxWrites == 4

\* PartitionData::buffer_write
buffer_write(p, mb) == [p EXCEPT !.buffer = Append(@, mb)]

\* PartitionData::persist_cost_estimate: grows with the rows buffered
persist_cost_estimate(p) == SeqSum(p.buffer)

\* PartitionData::mark_persisting: the buffered data becomes the persisting
\* data, the buffer starts anew
mark_persisting(p) == [p EXCEPT !.buffer = <<>>, !.persisting = Append(@, p.buffer)]

\* HotPartitionPersister::new, a partition without data, an idle writer.
\* spawned holds the data of the enqueue tasks tokio has not run yet, calls
\* what the persist queue was handed.
PersisterInit ==
    /\ persister \in {[max_estimated_persist_cost |-> m, persist_count |-> 0,
                        partition |-> [buffer |-> <<>>, persisting |-> <<>>], guard |-> FALSE,
                        writes |-> 0, spawned |-> <<>>, calls |-> <<>>] :
                          m \in {2, 3}}
    /\ metrics_sink = NotUsed /\ permit_call = NotUsed
    /\ literal = NotUsed /\ server = NotUsed
    /\ planner = NotUsed
    /\ DriverNotUsed

\* a writer locks the partition and buffers a write; it goes on to observe
\* with the lock held
partition_write(mb) ==
    /\ ~persister.guard
    /\ persister.writes < MaxWrites
    /\ persister' = [persister EXCEPT !.guard = TRUE, !.writes = @ + 1,
                                       !.partition = buffer_write(@, mb)]
    /\ UNCHANGED <<driver_vars, metrics_sink, permit_call, literal, server, planner>>

\* mutant of observe: the partition is persisted only above the limit
observe_above_limit ==
    /\ persister.guard
    /\ LET cost_estimate == persist_cost_estimate(persister.partition)
       IN persister' =
             IF cost_estimate > persister.max_estimated_persist_cost
             THEN [persister EXCEPT
                      !.guard = FALSE,
                      !.partition = mark_persisting(@),
                      !.spawned = Append(@, persister.partition.buffer),
                      !.persist_count = @ + 1]
             ELSE [persister EXCEPT !.guard = FALSE]
    /\ UNCHANGED <<driver_vars, metrics_sink, permit_call, literal, server, planner>>

\* mutant of observe: persist awaits the enqueue itself instead of spawning it
observe_enqueues_inline ==
    /\ persister.guard
    /\ LET cost_estimate == persist_cost_estimate(persister.partition)
       IN persister' =
             IF cost_estimate >= persister.max_estimated_persist_cost
             THEN [persister EXCEPT
                      !.guard = FALSE,
                      !.partition = mark_persisting(@),
                      !.calls = Append(@, persister.partition.buffer),
                      !.persist_count = @ + 1]
             ELSE [persister EXCEPT !.guard = FALSE]
    /\ UNCHANGED <<driver_vars, metrics_sink, permit_call, literal, server, planner>>

\* observe, and persist when the cost is at or over the limit: the partition
\* is marked as persisting, the enqueue is spawned, the counter incremented;
\* the guard is dropped either way
observe ==
    /\ persister.guard
    /\ LET cost_estimate == persist_cost_estimate(persister.partition)
       IN persister' =
             IF cost_estimate >= persister.max_estimated_persist_cost
             THEN [persister EXCEPT
                      !.guard = FALSE,
                      !.partition = mark_persisting(@),
                      !.spawned = Append(@, persister.partition.buffer),
                      !.persist_count = @ + 1]
             ELSE [persister EXCEPT !.guard = FALSE]
    /\ UNCHANGED <<driver_vars, metrics_sink, permit_call, literal, server, planner>>

\* one spawned task runs: persist_handle.enqueue(partition, data).await
enqueue(n) ==
    /\ n \in 1..Len(persister.spawned)
    /\ persister' = [persister EXCEPT
                        !.calls = Append(@, persister.spawned[n]),
                        !.spawned = SubSeq(@, 1, n - 1) \o SubSeq(@, n + 1, Len(@))]
    /\ UNCHANGED <<driver_vars, metrics_sink, permit_call, literal, server, planner>>

PersisterNext ==
    \/ \E mb \in {1, 2} : partition_write(mb)
    \/ observe
    \/ \E n \in 1..MaxWrites : enqueue(n)

PersisterSpec == PersisterInit /\ [][PersisterNext]_vars

\* ------------------- the database server behind `influxdb_iox database ...`
\* databases created on the server
MaxDatabases == 3
DbNames == {"db_a", "db_b"}
\* UUIDs: the n-th database created has UUID n; 0 is a well-formed UUID no
\* database was created with (Uuid::new_v4() of the tests)
UnknownUuid == 0
Uuids == 0..MaxDatabases

\* responses of the CLI commands
Created(db, uuid) == [ok |-> TRUE, msg |-> "Created database", name |-> db, uuid |-> uuid]
Released(db, uuid) == [ok |-> TRUE, msg |-> "Released database", name |-> db, uuid |-> uuid]
Claimed(db, uuid) == [ok |-> TRUE, msg |-> "Claimed database", name |-> db, uuid |-> uuid]
Failure(msg, db, uuid) == [ok |-> FALSE, msg |-> msg, name |-> db, uuid |-> uuid]

\* ServerFixture::create_shared: no database of these names yet.  active are
\* the databases the server lists, released the ones it let go of, created
\* all it ever created; cmd and out are the last command and its response.
ServerInit ==
    /\ server = [active |-> {}, released |-> {}, created |-> {},
                 cmd |-> <<>>, out |-> [ok |-> TRUE, msg |-> "", name |-> "", uuid |-> UnknownUuid]]
    /\ metrics_sink = NotUsed /\ permit_call = NotUsed
    /\ literal = NotUsed /\ persister = NotUsed
    /\ planner = NotUsed
    /\ DriverNotUsed

ActiveNames == {d.name : d \in server.active}
ActiveUuids == {d.uuid : d \in server.active}

\* database create <db>, for a name that is not active
database_create(db) ==
    /\ Cardinality(server.created) < MaxDatabases
    /\ db \notin ActiveNames
    /\ LET d == [name |-> db, uuid |-> Cardinality(server.created) + 1]
       IN server' = [server EXCEPT
                        !.active = @ \cup {d}, !.created = @ \cup {d},
                        !.cmd = <<"create", db>>, !.out = Created(db, d.uuid)]
    /\ UNCHANGED <<driver_vars, metrics_sink, permit_call, literal, persister, planner>>

\* mutant of database_release: --uuid is not compared with the current UUID
database_release_any_uuid(db, uuid) ==
    /\ server' =
          IF db \notin ActiveNames
          THEN [server EXCEPT !.cmd = <<"release", db, uuid>>,
                              !.out = Failure("Could not find database", db, UnknownUuid)]
          ELSE LET d == CHOOSE d \in server.active : d.name = db
               IN [server EXCEPT
                      !.active = @ \ {d}, !.released = @ \cup {d},
                      !.cmd = <<"release", db, uuid>>, !.out = Released(db, d.uuid)]
    /\ UNCHANGED <<driver_vars, metrics_sink, permit_call, literal, persister, planner>>

\* mutant of database_release: the database stays in the active list
database_release_stays_listed(db, uuid) ==
    /\ server' =
          IF db \notin ActiveNames
          THEN [server EXCEPT !.cmd = <<"release", db, uuid>>,
                              !.out = Failure("Could not find database", db, UnknownUuid)]
          ELSE LET d == CHOOSE d \in server.active : d.name = db
               IN IF uuid # <<>> /\ uuid[1] # d.uuid
                  THEN [server EXCEPT
                           !.cmd = <<"release", db, uuid>>,
                           !.out = Failure("the UUID specified does not match the current UUID",
                                           db, d.uuid)]
                  ELSE [server EXCEPT
                           !.released = @ \cup {d},
                           !.cmd = <<"release", db, uuid>>, !.out = Released(db, d.uuid)]
    /\ UNCHANGED <<driver_vars, metrics_sink, permit_call, literal, persister, planner>>

\* database release <db> [--uuid <uuid>]; uuid is <<>> or <<the uuid>>
database_release(db, uuid) ==
    /\ server' =
          IF db \notin ActiveNames
          THEN [server EXCEPT !.cmd = <<"release", db, uuid>>,
                              !.out = Failure("Could not find database", db, UnknownUuid)]
          ELSE LET d == CHOOSE d \in server.active : d.name = db
               IN IF uuid # <<>> /\ uuid[1] # d.uuid
                  THEN [server EXCEPT
                           !.cmd = <<"release", db, uuid>>,
                           !.out = Failure("the UUID specified does not match the current UUID",
                                           db, d.uuid)]
                  ELSE [server EXCEPT
                           !.active = @ \ {d}, !.released = @ \cup {d},
                           !.cmd = <<"release", db, uuid>>, !.out = Released(db, d.uuid)]
    /\ UNCHANGED <<driver_vars, metrics_sink, permit_call, literal, persister, planner>>

\* mutant of database_claim: the name of the claimed database is not checked
database_claim_any_name(uuid) ==
    /\ server' =
          IF uuid \in ActiveUuids
          THEN [server EXCEPT !.cmd = <<"claim", uuid>>,
                              !.out = Failure("Resource database_uuid already exists", "", uuid)]
          ELSE IF uuid \notin {d.uuid : d \in server.released}
          THEN [server EXCEPT !.cmd = <<"claim", uuid>>,
                              !.out = Failure("Could not find a database with UUID", "", uuid)]
          ELSE LET d == CHOOSE d \in server.released : d.uuid = uuid
               IN [server EXCEPT
                      !.active = @ \cup {d}, !.released = @ \ {d},
                      !.cmd = <<"claim", uuid>>, !.out = Claimed(d.name, uuid)]
    /\ UNCHANGED <<driver_vars, metrics_sink, permit_call, literal, persister, planner>>

\* mutant of database_claim: a claimed database stays claimable
database_claim_twice(uuid) ==
    /\ server' =
          IF uuid \notin {d.uuid : d \in server.released \cup server.active}
          THEN [server EXCEPT !.cmd = <<"claim", uuid>>,
                              !.out = Failure("Could not find a database with UUID", "", uuid)]
          ELSE LET d == CHOOSE d \in server.released \cup server.active : d.uuid = uuid
               IN IF d.name \in ActiveNames \ {e.name : e \in server.active \cap {d}}
                  THEN [server EXCEPT
                           !.cmd = <<"claim", uuid>>,
                           !.out = Failure("Resource database already exists", d.name, uuid)]
                  ELSE [server EXCEPT
                           !.active = @ \cup {d}, !.released = @ \ {d},
                           !.cmd = <<"claim", uuid>>, !.out = Claimed(d.name, uuid)]
    /\ UNCHANGED <<driver_vars, metrics_sink, permit_call, literal, persister, planner>>

\* database claim <uuid>, uuid well-formed
database_claim(uuid) ==
    /\ server' =
          IF uuid \in ActiveUuids
          THEN [server EXCEPT !.cmd = <<"claim", uuid>>,
                              !.out = Failure("Resource database_uuid already exists", "", uuid)]
          ELSE IF uuid \notin {d.uuid : d \in server.released}
          THEN [server EXCEPT !.cmd = <<"claim", uuid>>,
                              !.out = Failure("Could not find a database with UUID", "", uuid)]
          ELSE LET d == CHOOSE d \in server.released : d.uuid = uuid
               IN IF d.name \in ActiveNames
                  THEN [server EXCEPT
                           !.cmd = <<"claim", uuid>>,
                           !.out = Failure("Resource database already exists", d.name, uuid)]
                  ELSE [server EXCEPT
                           !.active = @ \cup {d}, !.released = @ \ {d},
                           !.cmd = <<"claim", uuid>>, !.out = Claimed(d.name, uuid)]
    /\ UNCHANGED <<driver_vars, metrics_sink, permit_call, literal, persister, planner>>

ServerNext ==
    \/ \E db \in DbNames : database_create(db)
    \/ \E db \in DbNames, uuid \in {<<>>} \cup {<<u>> : u \in Uuids} : database_release(db, uuid)
    \/ \E uuid \in Uuids : database_claim(uuid)

ServerSpec == ServerInit /\ [][ServerNext]_vars

\* ------------------------------------------- flightsql planner.rs
\* The variants of FlightSQLCommand: the matches of get_flight_info and do_get
\* name every one of them, without a wildcard arm.
FlightSQLCommands ==
    {"CommandStatementQuery", "CommandPreparedStatementQuery", "CommandGetSqlInfo",
     "CommandGetCatalogs", "CommandGetCrossReference", "CommandGetDbSchemas",
     "CommandGetExportedKeys", "CommandGetImportedKeys", "CommandGetPrimaryKeys",
     "CommandGetTables", "CommandGetTableTypes", "CommandGetXdbcTypeInfo",
     "ActionCreatePreparedStatementRequest", "ActionClosePreparedStatementRequest"}

\* ProtocolSnafu { cmd, method }.fail()
Protocol(cmd, method) ==
    [ok |-> FALSE, error |-> "Protocol", cmd |-> cmd.name, method |-> method, value |-> ""]

\* the `?` of a handler: the error of the session context (planning the SQL,
\* building the plan, encoding the schema) is passed on, else Ok(value)
Handled(cmd, ctx_fails, value) ==
    IF ctx_fails \/ (cmd.query = "selec")
    THEN [ok |-> FALSE, error |-> "Query", cmd |-> "", method |-> "", value |-> ""]
    ELSE [ok |-> TRUE, error |-> "", cmd |-> "", method |-> "", value |-> value]

\* a command (the four with a query carry a valid or an invalid one) and a
\* session context that works or fails; no entry point has been called
PlannerInit ==
    /\ \E name \in FlightSQLCommands, ctx_fails \in BOOLEAN :
          \E query \in IF name \in {"CommandStatementQuery", "CommandPreparedStatementQuery",
                                     "ActionCreatePreparedStatementRequest",
                                     "ActionClosePreparedStatementRequest"}
                        THEN {"select 1", "selec"} ELSE {""} :
             planner = [cmd |-> [name |-> name, query |-> query], ctx_fails |-> ctx_fails,
                        called |-> "",
                        result |-> [ok |-> FALSE, error |-> "", cmd |-> "", method |-> "",
                                    value |-> ""]]
    /\ metrics_sink = NotUsed /\ permit_call = NotUsed /\ literal = NotUsed
    /\ persister = NotUsed /\ server = NotUsed
    /\ DriverNotUsed

\* FlightSQLPlanner::get_flight_info: the schema for the command
get_flight_info ==
    /\ planner.called = ""
    /\ planner' = [planner EXCEPT
                      !.called = "GetFlightInfo",
                      !.result =
                         IF planner.cmd.name \in {"ActionCreatePreparedStatementRequest",
                                                  "ActionClosePreparedStatementRequest"}
                         THEN Protocol(planner.cmd, "GetFlightInfo")
                         ELSE Handled(planner.cmd, planner.ctx_fails, "schema")]
    /\ UNCHANGED <<driver_vars, metrics_sink, permit_call, literal, persister, server>>

\* FlightSQLPlanner::do_get: the plan that computes the results
do_get ==
    /\ planner.called = ""
    /\ planner' = [planner EXCEPT
                      !.called = "DoGet",
                      !.result =
                         IF planner.cmd.name \in {"ActionClosePreparedStatementRequest",
                                                  "ActionCreatePreparedStatementRequest"}
                         THEN Protocol(planner.cmd, "DoGet")
                         ELSE Handled(planner.cmd, planner.ctx_fails, "plan")]
    /\ UNCHANGED <<driver_vars, metrics_sink, permit_call, literal, persister, server>>

\* mutant of do_action: closing a prepared statement looks its query up first
do_action_close_checks_query ==
    /\ planner.called = ""
    /\ planner' = [planner EXCEPT
                      !.called = "DoAction",
                      !.result =
                         CASE planner.cmd.name = "ActionCreatePreparedStatementRequest" ->
                                 Handled(planner.cmd, planner.ctx_fails,
                                         "ActionCreatePreparedStatementResult")
                           [] planner.cmd.name = "ActionClosePreparedStatementRequest" ->
                                 Handled(planner.cmd, planner.ctx_fails, "")
                           [] OTHER -> Protocol(planner.cmd, "DoAction")]
    /\ UNCHANGED <<driver_vars, metrics_sink, permit_call, literal, persister, server>>

\* FlightSQLPlanner::do_action: the packed result of creating a prepared
\* statement, Bytes::new() for closing one, and `_ =>` a Protocol error
do_action ==
    /\ planner.called = ""
    /\ planner' = [planner EXCEPT
                      !.called = "DoAction",
                      !.result =
                         CASE planner.cmd.name = "ActionCreatePreparedStatementRequest" ->
                                 Handled(planner.cmd, planner.ctx_fails,
                                         "ActionCreatePreparedStatementResult")
                           [] planner.cmd.name = "ActionClosePreparedStatementRequest" ->
                                 [ok |-> TRUE, error |-> "", cmd |-> "", method |-> "",
                                  value |-> ""]
                           [] OTHER -> Protocol(planner.cmd, "DoAction")]
    /\ UNCHANGED <<driver_vars, metrics_sink, permit_call, literal, persister, server>>

PlannerNext == get_flight_info \/ do_get \/ do_action

PlannerSpec == PlannerInit /\ [][PlannerNext]_vars

\* a concurrent mutator of the catalog (another compactor, a retention job)
\* soft-deletes a file that a partition of the stream had from the start
concurrent_mutator ==
    /\ \E f \in catalog :
          /\ f.pid \in Range(partition_stream)
          /\ f.id \in {g.id : g \in InitCatalog}
          /\ catalog' = catalog \ {f}
    /\ UNCHANGED <<component_vars, partition_stream, partition_concurrency, tasks, returned,
                   next_id, durable, pad, locals>>

MutatorNext == FilesNext \/ concurrent_mutator

\* FilesSpec with the catalog shared with a concurrent mutator
MutatorSpec == FilesInit /\ [][MutatorNext]_vars

\* Spec under a runtime that does not leave waiting for ever a step that
\* waits on nothing but the runtime: the stream is polled while there is room,
\* the timer of the timeout fires, the sink and the scratchpad calls return,
\* collect() returns
FairSpec == Init /\ [][Next]_vars /\ WF_vars(\/ compact_next
               \/ compact_return
               \/ \E i \in 1..Len(tasks) : timeout(i) \/ record(i) \/ clean(i))

\* ------------------------------------------------------------------ claims
Tasks == 1..Len(tasks)

\* C1: every compact_partition invocation calls partition_done_sink.record
\* exactly once, whatever its outcome: nothing is recorded before the record
\* step, and from then on exactly one result is, never two.
C1_RecordedExactlyOnce ==
    \A i \in Tasks :
        /\ Len(tasks[i].sink) <= 1
        /\ (tasks[i].pc \in {"clean", "done"}) <=> (Len(tasks[i].sink) = 1)

\* C1 witness: two invocations have ended, one that timed out without
\* progress and one that completed.
C1_Witness ==
    /\ Len(tasks) = 2
    /\ tasks[1].pc = "done" /\ tasks[1].sink = <<Err("Timeout", "timeout without making any progress")>>
    /\ tasks[2].pc = "done" /\ tasks[2].sink = <<Ok>>

\* C2: the result recorded in the done sink is an error of kind Timeout for
\* NoWorkTimeOutError, Ok for SomeWorkTryAgain, and the result of
\* try_compact_partition, unchanged, for Completed.
C2_OutcomeMapping ==
    \A i \in Tasks :
        tasks[i].pc = "clean" =>
            LET o == tasks[i].outcome
                r == tasks[i].sink[Len(tasks[i].sink)]
            IN /\ o.tag \in {"NoWorkTimeOutError", "SomeWorkTryAgain", "Completed"}
               /\ o.tag = "NoWorkTimeOutError" => (~r.ok /\ r.kind = "Timeout")
               /\ o.tag = "SomeWorkTryAgain" => r = Ok
               /\ o.tag = "Completed" => r = o.val

\* C2 witness: a timeout after progress was recorded as Ok while another
\* invocation's own error was recorded unchanged.
C2_Witness ==
    \E i, j \in Tasks :
        /\ tasks[i].pc = "clean" /\ tasks[i].outcome.tag = "SomeWorkTryAgain"
        /\ tasks[i].sink = <<Ok>>
        /\ tasks[j].pc = "clean" /\ tasks[j].outcome = Completed(Err("ObjectStore", "component error"))
        /\ tasks[j].sink = <<Err("ObjectStore", "component error")>>

\* C3: at most one catalog commit for a given partition id is in flight,
\* counted across all the compact_partition futures that compact runs.
C3_CommitsSerialized ==
    \A i, j \in Tasks :
        (i # j /\ tasks[i].pid = tasks[j].pid) =>
            ~(tasks[i].pc = "commit" /\ tasks[j].pc = "commit")

\* C4: a commit starts only after make_public has published every output of
\* the branch, each created file carries the uuid make_public returned for it,
\* and no file of the catalog names an object that only the scratchpad holds.
C4_CommitAfterPublish ==
    /\ \A f \in catalog : f.uuid \in durable /\ f.uuid \notin pad
    /\ \A i \in Tasks :
           tasks[i].pc \in {"clean_inputs", "fetch_state", "commit"} =>
               \A k \in 1..Len(locals.created) :
                   /\ locals.created[k].uuid \in durable
                   /\ locals.created[k].uuid \notin pad
                   /\ \E u \in pad : u.at = "staged output"
                                      /\ locals.created[k].uuid = [u EXCEPT !.at = "durable"]

\* C4 witness: a commit has put a compaction output into the catalog.
C4_Witness ==
    /\ \E f \in catalog : f.uuid.kind = "out"
    /\ \E i \in Tasks : tasks[i].pc = "done"

\* C5: scratchpad.clean() runs on every exit path of compact_partition, after
\* the outcome is recorded: once the invocation has ended one result is in the
\* sink and nothing staged is left in the scratchpad.
C5_ScratchpadCleaned ==
    \A i \in Tasks :
        /\ tasks[i].pc = "clean" => Len(tasks[i].sink) = 1
        /\ tasks[i].pc = "done" => (pad = {} /\ Len(tasks[i].sink) = 1)

\* C5 witness: an invocation that staged and published an output, then timed
\* out, has ended.
C5_Witness ==
    \E i \in Tasks :
        /\ tasks[i].pc = "done"
        /\ ~tasks[i].sink[1].ok /\ tasks[i].sink[1].kind = "Timeout"
        /\ \E u \in durable : u.kind = "out"
        /\ pad = {}

\* C7: with a finite partition stream and timeout, compact eventually returns,
\* and it has returned only when every id of the stream was handed to
\* compact_partition and each invocation ran to its end with one sink record.
C7_CompactReturns ==
    /\ <>returned
    /\ [](returned =>
            /\ Len(tasks) = Len(partition_stream)
            /\ \A i \in Tasks : /\ tasks[i].pid = partition_stream[i]
                                /\ tasks[i].pc = "done"
                                /\ Len(tasks[i].sink) = 1)

\* C7 witness: compact has returned after two invocations.
C7_Witness == returned /\ Len(tasks) = 2

\* C8: never more than partition_concurrency compact_partition invocations are
\* in flight; they may end in an order other than the stream's.
C8_BoundedConcurrency == Cardinality(InFlight) <= partition_concurrency

\* C8 witness: with two invocations started, the second has ended while the
\* first is still in flight.
C8_Witness ==
    /\ Len(tasks) = 2 /\ partition_concurrency = 2
    /\ tasks[2].pc = "done" /\ tasks[1].pc \in TryPcs

\* C9: the timeout wrapper yields exactly one of: Completed, when the future
\* ended before the deadline; SomeWorkTryAgain, when the deadline passed and
\* send(true) was seen on the progress channel; NoWorkTimeOutError, when the
\* deadline passed and no progress was signalled.
C9_TimeoutOutcome ==
    \A i \in Tasks :
        tasks[i].pc \in {"record", "clean"} =>
            LET o == tasks[i].outcome
            IN /\ o.tag \in {"Completed", "SomeWorkTryAgain", "NoWorkTimeOutError"}
               /\ o.tag = "Completed" <=> ~tasks[i].deadline
               /\ o.tag = "SomeWorkTryAgain" <=> (tasks[i].deadline /\ tasks[i].progress)
               /\ o.tag = "NoWorkTimeOutError" <=> (tasks[i].deadline /\ ~tasks[i].progress)

\* C9 witness: one invocation timed out after a commit had signalled progress,
\* another timed out without any.
C9_Witness ==
    \E i, j \in Tasks :
        /\ tasks[i].pc = "record" /\ tasks[i].outcome.tag = "SomeWorkTryAgain"
        /\ tasks[j].pc = "record" /\ tasks[j].outcome.tag = "NoWorkTimeOutError"

\* C10: inside a branch the permits are acquired before the physical plan is
\* created and are released once the job has ended, before upload and commit:
\* permits are held exactly while the plan is created and executed.
C10_PermitWindow ==
    \A i \in Tasks :
        /\ tasks[i].pc \in {"plan", "job"} =>
               /\ tasks[i].held >= 1
               /\ tasks[i].held = PartitionPermits[tasks[i].pid]
        /\ tasks[i].pc \notin {"plan", "job"} => tasks[i].held = 0

\* C10 witness: a branch that ran two plans is uploading their outputs.
C10_Witness ==
    \E i \in Tasks :
        /\ tasks[i].pc = "upload"
        /\ Len(locals.created) = 2
        /\ tasks[i].held = 0

\* C11: no exit path of execute_plan leaks permits: the semaphore misses
\* exactly the permits of the plans being created or executed, an invocation
\* that left try_compact_partition (returned, failed or cancelled by the
\* timeout) holds none, and with no plan running all total_permits are there.
C11_NoPermitLeak ==
    /\ PermitsAvailable
         = TotalPermits - SeqSum([i \in Tasks |->
                                    IF tasks[i].pc \in {"plan", "job"}
                                    THEN PartitionPermits[tasks[i].pid]
                                    ELSE 0])
    /\ \A i \in Tasks : tasks[i].pc \in {"record", "clean", "done"} => tasks[i].held = 0
    /\ (\A i \in Tasks : tasks[i].pc \notin {"plan", "job"}) => PermitsAvailable = TotalPermits

\* C11 witness: a wide partition was cancelled by the timeout, another failed,
\* and every permit is back in the semaphore.
C11_Witness ==
    /\ PermitsAvailable = TotalPermits
    /\ \E i, j \in Tasks :
          /\ tasks[i].pc = "record" /\ tasks[i].deadline
          /\ PartitionColumns[tasks[i].pid] >= SINGLE_THREADED_COLUMN_COUNT
          /\ tasks[j].pc = "record" /\ tasks[j].outcome = Completed(Err("Unknown", "component error"))

\* C12: the permits held by all running plans never sum to more than
\* total_permits, and while a plan of a partition with 100 columns or more
\* holds its permits no other plan holds any.
C12_WideRunsAlone ==
    /\ SeqSum([i \in Tasks |-> tasks[i].held]) <= TotalPermits
    /\ \A i \in Tasks :
          (tasks[i].held > 0 /\ PartitionColumns[tasks[i].pid] >= 100) =>
              \A j \in Tasks \ {i} : tasks[j].held = 0

\* C12 witness: a wide partition runs its job with every permit while another
\* wide partition waits for the semaphore.
C12_Witness ==
    \E i, j \in Tasks :
        /\ tasks[i].pc = "job" /\ tasks[i].held = TotalPermits
        /\ PartitionColumns[tasks[i].pid] >= 100
        /\ tasks[j].pc = "acquire" /\ PartitionColumns[tasks[j].pid] >= 100

C14_PlanErrorFailsPartition ==
    [][\A i \in Tasks :
         /\ (tasks[i].pc \in {"plan", "job"} /\ tasks'[i].pc = "record"
                                            /\ ~tasks'[i].deadline) =>
               /\ tasks'[i].outcome.tag = "Completed"
               /\ tasks'[i].outcome.val \in ComponentErrors
               /\ tasks'[i].plans = 0 /\ tasks'[i].branches = 0
               /\ durable' = durable /\ catalog' = catalog
         /\ (tasks[i].pc \in {"plan", "job"} /\ tasks'[i].pc \notin {"plan", "job", "record"}) =>
               tasks'[i].pc \in {"acquire", "upload"}
         /\ tasks[i].pc \in {"record", "clean", "done"} =>
               /\ tasks'[i].pc \in {"record", "clean", "done"}
               /\ durable' = durable /\ catalog' = catalog
         /\ (tasks[i].pc = "record" /\ tasks'[i].pc = "clean"
                                   /\ tasks[i].outcome.tag = "Completed") =>
               tasks'[i].sink = <<tasks[i].outcome.val>>]_vars

\* C14 witness: the partition ended with an error while an output staged by
\* an earlier plan of the branch was never copied to the durable store.
C14_Witness ==
    \E i \in Tasks :
        /\ tasks[i].pc = "clean"
        /\ tasks[i].sink \in {<<e>> : e \in ComponentErrors}
        /\ \E u \in pad : u.at = "staged output" /\ [u EXCEPT !.at = "durable"] \notin durable

C17_UpgradeFrame ==
    returned =>
        /\ \A f \in locals.upgrade :
              \E g \in locals.files_next :
                 /\ g.id = f.id /\ g.uuid = f.uuid
                 /\ g.min_time = f.min_time /\ g.max_time = f.max_time
                 /\ g.row_count = f.row_count
                 /\ g.file_size_bytes = f.file_size_bytes
                 /\ g.level = locals.target_level
        /\ Cardinality(locals.files_next) = Cardinality(locals.upgrade)
        /\ {g.id : g \in locals.files_next} = {f.id : f \in locals.upgrade}

\* C17 witness: two files, an L0 and an L1, were upgraded to L2.
C17_Witness ==
    /\ returned /\ locals.target_level = 2
    /\ {f.level : f \in locals.upgrade} = {0, 1}
    /\ {g.level : g \in locals.files_next} = {2}

\* C18: the compaction level of a file never decreases: through a commit a
\* file keeps its level, is upgraded to a level that is not lower, or is
\* deleted and replaced by files at a level that is not lower.
C18_LevelNeverDecreases ==
    [][LET NotLower(before, after) ==
              \A f \in before :
                 \/ \E g \in after : g.id = f.id /\ g.uuid = f.uuid /\ g.level >= f.level
                 \/ /\ \A g \in after : g.id # f.id
                    /\ \A g \in after :
                          (g.id \notin {h.id : h \in before}) => g.level >= f.level
       IN /\ NotLower(catalog, catalog')
          /\ \A i \in Tasks :
                (tasks[i].pc = "commit" /\ tasks'[i].pc = "round_info") =>
                    NotLower(locals.keep \cup locals.upgrade \cup locals.soc,
                             locals'.files)]_vars

\* C18 witness: a commit upgraded an L0 file to L1, replaced another L0 file
\* by an L1 file and kept an L2 file.
C18_Witness ==
    /\ \E i \in Tasks : tasks[i].progress
    /\ \E f, g, h \in catalog :
          /\ f.uuid = InitUuid(1) /\ f.level = 1
          /\ h.uuid = InitUuid(3) /\ h.level = 2
          /\ g.uuid.kind = "out" /\ g.level = 1
    /\ \A f \in catalog : f.uuid # InitUuid(2)

\* C19: for every classification of a branch, the branch's files are the
\* disjoint union of files_to_keep, upgrade and split_or_compact: every file
\* of the branch is in exactly one of the three and no other file is in any.
C19_ClassificationPartitions ==
    \A i \in Tasks :
        tasks[i].pc \in {"post_filter", "load", "acquire", "plan", "job", "upload",
                         "clean_inputs", "fetch_state", "commit"} =>
            LET branch == {s[1] : s \in locals.saved}
            IN /\ locals.keep \cap locals.upgrade = {}
               /\ locals.keep \cap locals.soc = {}
               /\ locals.upgrade \cap locals.soc = {}
               /\ {f.id : f \in locals.keep \cup locals.upgrade \cup locals.soc} = branch
               /\ Cardinality(locals.keep) + Cardinality(locals.upgrade)
                    + Cardinality(locals.soc) = Cardinality(branch)

\* C19 witness: a branch of three files was classified into one file to keep,
\* one to upgrade and one to compact.
C19_Witness ==
    \E i \in Tasks :
        /\ tasks[i].pc = "commit"
        /\ Cardinality(locals.saved) = 3
        /\ Cardinality(locals.keep) = 1 /\ Cardinality(locals.upgrade) = 1
        /\ Cardinality(locals.soc) = 1

\* C20: for every two distinct branches DivideInitial produces in one round,
\* the time ranges their files cover are disjoint; two files whose time
\* ranges overlap, such as [0,10] and [5,20], are in the same branch.
C20_BranchesDisjointInTime ==
    returned =>
        LET d == locals.branches
        IN /\ \A a, b \in 1..Len(d) :
                 a # b =>
                    \A f \in d[a], g \in d[b] :
                        f.max_time < g.min_time \/ g.max_time < f.min_time
           /\ \A f, g \in locals.files :
                 (f.min_time <= g.max_time /\ g.min_time <= f.max_time) =>
                     \E a \in 1..Len(d) : f \in d[a] /\ g \in d[a]
           /\ UNION {d[a] : a \in 1..Len(d)} = locals.files

\* C20 witness: [0,10], [5,20], [25,30] and [40,50] were divided into two
\* branches, [0,10] and [5,20] together.
C20_Witness ==
    /\ returned /\ Len(locals.branches) = 2
    /\ {<<f.min_time, f.max_time>> : f \in locals.files}
          = {<<0, 10>>, <<5, 20>>, <<25, 30>>, <<40, 50>>}
    /\ \E a \in 1..2 :
          {<<0, 10>>, <<5, 20>>} \subseteq {<<f.min_time, f.max_time>> : f \in locals.branches[a]}

\* C21: after any sequence of record calls the ok counter is the number of Ok
\* results recorded and each error-kind counter the number of Err results
\* classified as that kind; every call increments exactly one counter by one
\* and is forwarded once to the inner sink with the same partition and result.
C21_CountersMatchRecords ==
    /\ [](LET s == metrics_sink
          IN /\ s.ok_counter = Cardinality({n \in 1..Len(s.calls) : s.calls[n][2].ok})
             /\ \A k \in ErrorKindVariants :
                   s.error_counter[k] =
                      Cardinality({n \in 1..Len(s.calls) :
                                      ~s.calls[n][2].ok /\ classify(s.calls[n][2]) = k})
             /\ \A c \in Range(s.calls) \cup Range(s.inner) \cup Range(s.forwarding) :
                   Cardinality({n \in 1..Len(s.inner) : s.inner[n] = c}) + Cardinality({n \in 1..Len(s.forwarding) : s.forwarding[n] = c})
                      = Cardinality({n \in 1..Len(s.calls) : s.calls[n] = c}))
    /\ [][Len(metrics_sink'.calls) = Len(metrics_sink.calls) + 1 =>
            LET changed == {k \in ErrorKindVariants :
                               metrics_sink'.error_counter[k] # metrics_sink.error_counter[k]}
                res == metrics_sink'.calls[Len(metrics_sink'.calls)][2]
            IN IF res.ok
               THEN /\ metrics_sink'.ok_counter = metrics_sink.ok_counter + 1
                    /\ changed = {}
               ELSE /\ metrics_sink'.ok_counter = metrics_sink.ok_counter
                    /\ changed = {classify(res)}
                    /\ metrics_sink'.error_counter[classify(res)]
                          = metrics_sink.error_counter[classify(res)] + 1]_vars

\* C21 witness: Err("msg"), Err("msg"), Err(ObjectStoreNotImplemented) and
\* Ok(()) were recorded and forwarded: ok 1, unknown 2, object_store 1.
C21_Witness ==
    /\ metrics_sink.calls = <<<<1, Err("Unknown", "msg")>>, <<2, Err("Unknown", "msg")>>,
                              <<1, Err("ObjectStore", "Operation not yet implemented.")>>,
                              <<2, Ok>>>>
    /\ metrics_sink.inner = metrics_sink.calls
    /\ metrics_sink.ok_counter = 1
    /\ metrics_sink.error_counter["Unknown"] = 2
    /\ metrics_sink.error_counter["ObjectStore"] = 1

\* C22: compute_permits(total, columns) is total when columns >= 100 and
\* otherwise max(1, floor(total * columns^2 / 10000)); for total = 100 it is
\* 1, 1, 4, 9, 16, 25, 36, 49, 64, 81, 100, 100 for columns 1, 10, 20, 30, 40,
\* 50, 60, 70, 80, 90, 100, 10000.
C22_PermitFormula ==
    (permit_call.returned /\ permit_call.total_permits.hi = 0) =>
        LET t == permit_call.total_permits.lo
            c == permit_call.columns
            floor == (t * c * c) \div 10000
        IN /\ permit_call.permits =
                 IF c >= 100 THEN t ELSE IF floor < 1 THEN 1 ELSE floor
           /\ t = 100 =>
                 /\ c = 1 => permit_call.permits = 1
                 /\ c = 10000 => permit_call.permits = 100
                 /\ c \in {10, 20, 30, 40, 50, 60, 70, 80, 90, 100} =>
                       permit_call.permits = IF c = 10 THEN 1 ELSE (c \div 10) * (c \div 10)

C24_DisplayDecomposes ==
    literal.pc = "done" =>
        LET out == literal.display
            \* the place of a unit among the DIVISORS
            UnitRank(unit) == CHOOSE k \in 1..Len(DIVISORS) : DIVISORS[k][2] = unit
        IN /\ duration(out) = literal.d
           /\ IF literal.d = Nanos(0, 0)
              THEN out = << <<0, "s">> >>
              ELSE /\ \A n \in 1..Len(out) : out[n][1] > 0
                   /\ \A n \in 1..(Len(out) - 1) :
                         UnitRank(out[n][2]) < UnitRank(out[n + 1][2])
           /\ literal.i = << <<3, "w">>, <<2, "h">>, <<15, "ms">> >> => out = literal.i
           /\ Len(literal.i) = 5 => out = << <<25, "s">> >>
           /\ Len(literal.i) = 8 => out = literal.i

C26_OneActivePerName ==
    /\ [](\A d, e \in server.active : d.name = e.name => d = e)
    /\ [][/\ \A d \in server.released :
                (server'.cmd = <<"claim", d.uuid>> /\ d.name \in ActiveNames) =>
                    /\ server'.out = Failure("Resource database already exists", d.name, d.uuid)
                    /\ server'.active = server.active
          /\ \A db \in DbNames :
                (server'.cmd = <<"create", db>> /\ {x \in server.released : x.name = db} # {}) =>
                    /\ server'.out.ok
                    /\ Cardinality({x \in server'.active : x.name = db}) = 1]_vars

\* C26 witness: db_a was created, released and created again; claiming the
\* UUID of the first db_a failed because the second is active.
C26_Witness ==
    /\ server.cmd = <<"claim", 1>>
    /\ server.out = Failure("Resource database already exists", "db_a", 1)
    /\ server.active = {[name |-> "db_a", uuid |-> 2]}
    /\ [name |-> "db_a", uuid |-> 1] \in server.released

\* C27: releasing an active database succeeds, returns the UUID the database
\* was created with and takes the name off the list of active databases;
\* releasing a name that is not active, such as a second release of the same
\* name, fails with 'Could not find database' and changes nothing.
C27_ReleaseActiveOnly ==
    [][\A db \in DbNames :
          server'.cmd = <<"release", db, <<>>>> =>
              IF db \in ActiveNames
              THEN /\ server'.out.ok /\ server'.out.msg = "Released database"
                   /\ [name |-> db, uuid |-> server'.out.uuid] \in server.created \cap server.active
                   /\ {x \in server'.active : x.name = db} = {}
              ELSE /\ server'.out = Failure("Could not find database", db, UnknownUuid)
                   /\ server'.active = server.active
                   /\ server'.released = server.released
                   /\ server'.created = server.created]_vars

\* C27 witness: db_a was released and a second release of db_a failed.
C27_Witness ==
    /\ server.cmd = <<"release", "db_a", <<>>>>
    /\ server.out = Failure("Could not find database", "db_a", UnknownUuid)
    /\ [name |-> "db_a", uuid |-> 1] \in server.released
    /\ server.active = {}

\* C28: claiming the UUID of a released database whose name no active database
\* has succeeds and makes the database active again under its original name;
\* claiming a UUID that is active fails with 'Resource database_uuid/<uuid>
\* already exists', claiming a well-formed UUID the server does not know fails
\* with 'Could not find a database with UUID'; a failed claim changes nothing.
C28_ClaimReleasedOnly ==
    [][\A uuid \in Uuids :
          server'.cmd = <<"claim", uuid>> =>
              /\ \A d \in {x \in server.released : x.uuid = uuid} :
                    d.name \notin ActiveNames =>
                        /\ server'.out = Claimed(d.name, uuid)
                        /\ d \in server.created
                        /\ server'.active = server.active \cup {d}
              /\ uuid \in ActiveUuids =>
                    server'.out = Failure("Resource database_uuid already exists", "", uuid)
              /\ {x \in server.active \cup server.released : x.uuid = uuid} = {} =>
                    server'.out = Failure("Could not find a database with UUID", "", uuid)
              /\ ~server'.out.ok =>
                    /\ server'.active = server.active
                    /\ server'.released = server.released]_vars

\* C28 witness: two databases named db_a were created and released in turn;
\* the first was claimed by its UUID and is the active db_a again.
C28_Witness ==
    /\ server.cmd = <<"claim", 1>>
    /\ server.out = Claimed("db_a", 1)
    /\ server.active = {[name |-> "db_a", uuid |-> 1]}
    /\ [name |-> "db_a", uuid |-> 2] \in server.released

\* C29: release with --uuid releases the database if and only if the given
\* UUID is the database's current UUID: on a mismatch the command fails with
\* 'the UUID specified does not match the current UUID' and the database
\* stays active with its UUID; on a match the database is released and the
\* UUID returned is the one returned at creation.
C29_ReleaseChecksUuid ==
    [][\A d \in server.active, uuid \in Uuids :
          server'.cmd = <<"release", d.name, <<uuid>>>> =>
              IF uuid = d.uuid
              THEN /\ server'.out = Released(d.name, uuid)
                   /\ d \in server.created
                   /\ d \notin server'.active /\ d \in server'.released
              ELSE /\ server'.out = Failure("the UUID specified does not match the current UUID",
                                            d.name, d.uuid)
                   /\ server'.active = server.active
                   /\ server'.released = server.released]_vars

\* C29 witness: the second db_a is active and a release of db_a with another
\* UUID was refused.
C29_Witness ==
    /\ server.cmd = <<"release", "db_a", <<UnknownUuid>>>>
    /\ server.out = Failure("the UUID specified does not match the current UUID", "db_a", 2)
    /\ server.active = {[name |-> "db_a", uuid |-> 2]}

\* C30: within one compact_partition invocation the progress signal is sent
\* exactly when the catalog commit of a branch has completed: an invocation
\* whose outcome is NoWorkTimeOutError (recorded as a Timeout error) has had no
\* commit completed, one whose outcome is SomeWorkTryAgain has had at least one.
C30_ProgressIffCommitted ==
    /\ [](\A i \in Tasks :
            /\ tasks[i].progress <=> tasks[i].committed
            /\ tasks[i].outcome.tag = "NoWorkTimeOutError" => ~tasks[i].committed
            /\ tasks[i].outcome.tag = "SomeWorkTryAgain" => tasks[i].committed
            /\ (tasks[i].outcome.tag = "NoWorkTimeOutError" /\ tasks[i].pc = "clean") =>
                  tasks[i].sink = <<Err("Timeout", "timeout without making any progress")>>)
    /\ [][\A i \in Tasks :
            (~tasks[i].progress /\ tasks'[i].progress) =>
                tasks[i].pc = "commit" /\ ~tasks'[i].deadline]_vars

\* C30 witness: one invocation committed a branch and timed out later, in
\* the next round; another timed out at its first commit and was recorded
\* as a Timeout error.
C30_Witness ==
    \E i, j \in Tasks :
        /\ tasks[i].outcome.tag = "SomeWorkTryAgain" /\ tasks[i].committed
        /\ tasks[j].outcome.tag = "NoWorkTimeOutError" /\ ~tasks[j].committed
        /\ tasks[j].pc = "clean"

\* C31: if the post-classification filter rejects a branch,
\* try_compact_partition returns Ok at once: the branch has not been staged,
\* neither it nor a remaining branch of the round is staged, run or committed
\* afterwards, no further round starts, and the catalog keeps what the earlier
\* branches of the invocation committed.
C31_RejectedBranchEndsPartition ==
    /\ [](\A i \in Tasks :
            tasks[i].pc = "post_filter" =>
                \A f \in locals.keep \cup locals.upgrade \cup locals.soc :
                    StagedInput(f.uuid) \notin pad)
    /\ [][\A i \in Tasks :
            /\ (tasks[i].pc = "post_filter" /\ tasks'[i].pc # "post_filter") =>
                  \/ tasks'[i].pc = "load" /\ tasks'[i].outcome = NoOutcome
                  \/ /\ tasks'[i].pc = "record"
                     /\ tasks'[i].outcome.tag = "Completed" \/ tasks'[i].deadline
                     /\ locals' = Dropped(locals)
                     /\ catalog' = catalog /\ next_id' = next_id
                     /\ durable' = durable /\ pad' = pad
            /\ tasks[i].pc \in {"record", "clean", "done"} =>
                  /\ tasks'[i].pc \in {"record", "clean", "done"}
                  /\ catalog' = catalog /\ durable' = durable /\ pad' \subseteq pad
                  /\ locals' = locals]_vars

\* C31 witness: of the two branches of the round the first was committed and
\* the second rejected: the invocation returned Ok after one commit, file 1
\* is at L1 and file 2 is as it was.
C31_Witness ==
    \E i \in Tasks :
        /\ tasks[i].pc = "record"
        /\ tasks[i].outcome = Completed(Ok)
        /\ Len(locals.commits) = 1
        /\ {<<f.id, f.level>> : f \in catalog} = {<<1, 1>>, <<2, 0>>}
        /\ pad = {}

\* C32: at the start of a round, if the partition filter rejects the file set,
\* try_compact_partition returns Ok and nothing of that round has been split,
\* classified, staged or committed; the rounds loop ends only through this
\* filter, the post-classification filter, an error or the timeout.
C32_RoundsEndThroughFilters ==
    /\ [](\A i \in Tasks :
            tasks[i].pc = "partition_filter" =>
                /\ locals.branches = <<>> /\ locals.files_next = {}
                /\ locals.keep = {} /\ locals.upgrade = {} /\ locals.soc = {}
                /\ locals.created = <<>>
                /\ \A f \in locals.files : StagedInput(f.uuid) \notin pad)
    /\ [][\A i \in Tasks :
            /\ (tasks[i].pc = "partition_filter" /\ tasks'[i].outcome = Completed(Ok)) =>
                  /\ tasks'[i].pc = "record"
                  /\ locals' = Dropped(locals)
                  /\ catalog' = catalog /\ next_id' = next_id
                  /\ durable' = durable /\ pad' = pad
            /\ (tasks[i].pc \in TryPcs /\ tasks'[i].pc \notin TryPcs) =>
                  /\ tasks'[i].pc = "record"
                  /\ \/ tasks'[i].deadline
                     \/ tasks'[i].outcome.tag = "Completed" /\ ~tasks'[i].outcome.val.ok
                     \/ /\ tasks'[i].outcome = Completed(Ok)
                        /\ tasks[i].pc \in {"partition_filter", "post_filter"}]_vars

\* C32 witness: both branches of the round were committed and the partition
\* filter rejected the files of the next round: the invocation returned Ok
\* after two commits.
C32_Witness ==
    \E i \in Tasks :
        /\ tasks[i].pc = "record"
        /\ tasks[i].outcome = Completed(Ok)
        /\ Len(locals.commits) = 2
        /\ Cardinality({f \in catalog : f.id \in {1, 2}}) = 2

\* C33: after a branch's commit try_compact_partition sends true on the
\* progress channel; if the send fails because the receiver is gone, it
\* returns that error at once: no later branch or round runs, the partition's
\* result is an error, and the commit before the failed send stays in the
\* catalog.
C33_FailedSendIsFatal ==
    /\ [](\A i \in Tasks :
            (tasks[i].committed /\ ~tasks[i].receiver) =>
                /\ tasks[i].pc \in {"record", "clean"}
                /\ tasks[i].outcome = Completed(SendError)
                /\ tasks[i].pc = "clean" => tasks[i].sink = <<SendError>>
                /\ Len(locals.commits) = 1)
    /\ [][\A i \in Tasks :
            (tasks[i].pc = "commit" /\ ~tasks'[i].deadline) =>
                /\ Len(locals'.commits) = Len(locals.commits) + 1
                /\ catalog' = CommitCatalog(tasks[i].pid, locals.soc, locals.upgrade,
                                            locals.created, locals.target_level)
                /\ IF tasks[i].receiver
                   THEN /\ tasks'[i].progress
                        /\ tasks'[i].pc \in {"post_filter", "round_info"}
                   ELSE /\ tasks'[i].pc = "record"
                        /\ ~tasks'[i].outcome.val.ok
                        /\ locals' = Dropped(locals')]_vars

\* C33 witness: the send after the commit of the first of two branches
\* failed; the error was recorded, file 1 is at L1 in the catalog and the
\* second branch was left as it was.
C33_Witness ==
    \E i \in Tasks :
        /\ ~tasks[i].receiver
        /\ tasks[i].pc = "clean"
        /\ tasks[i].sink = <<SendError>>
        /\ {<<f.id, f.level>> : f \in catalog} = {<<1, 1>>, <<2, 0>>}

C35_NoFileCommittedTwice ==
    LET c == locals.commits
        live == locals.files \cup locals.files_next \cup locals.keep
                  \cup locals.upgrade \cup locals.soc
                  \cup UNION {locals.branches[k] : k \in 1..Len(locals.branches)}
    IN /\ \A a, b \in 1..Len(c) :
             a < b => /\ c[a].delete \cap c[b].delete = {}
                      /\ c[a].upgrade \cap c[b].upgrade = {}
       /\ \A a \in 1..Len(c) : c[a].delete \cap {f.id : f \in live} = {}

\* C35 as it holds: no file is passed to commit for deletion more than once,
\* none for upgrade more than once in one round, none for upgrade with or
\* after its deletion, and a deleted file never appears in the input of a
\* later branch or round nor in the catalog; a file upgraded in one round may
\* be upgraded again in a later round.
C35_DeletedOnceUpgradedOncePerRound ==
    LET c == locals.commits
        live == locals.files \cup locals.files_next \cup locals.keep
                  \cup locals.upgrade \cup locals.soc
                  \cup UNION {locals.branches[k] : k \in 1..Len(locals.branches)}
    IN /\ \A a, b \in 1..Len(c) :
             a < b => /\ c[a].delete \cap c[b].delete = {}
                      /\ c[a].delete \cap c[b].upgrade = {}
                      /\ c[a].round = c[b].round => c[a].upgrade \cap c[b].upgrade = {}
       /\ \A a \in 1..Len(c) :
             /\ c[a].delete \cap c[a].upgrade = {}
             /\ c[a].delete \cap {f.id : f \in live} = {}
             /\ c[a].delete \cap {f.id : f \in catalog} = {}

\* C35 witness: file 1 was upgraded by the first commit and deleted by the
\* commit of the next round, whose outputs are the files of the round to come.
C35_Witness ==
    \E i \in Tasks :
        /\ tasks[i].pc = "partition_filter"
        /\ Len(locals.commits) = 2
        /\ locals.commits[1].upgrade = {1}
        /\ locals.commits[2].delete = {1}
        /\ Cardinality(locals.files) = 2

\* C36: update_catalog pairs the i-th catalog id commit returned with the i-th
\* file params passed to commit, and returns as many created files as there
\* were params, in the order of the params: the k-th file returned has the
\* k-th id the catalog handed out and the object store uuid and compaction
\* level of the k-th params.
C36_CreatedFilesPairedInOrder ==
    [][returned' /\ ~returned =>
          LET params == locals.created
              files == locals'.created
          IN /\ Len(files) = Len(params)
             /\ \A k \in 1..Len(params) :
                   /\ files[k].id = next_id + k - 1
                   /\ files[k].uuid = params[k].uuid
                   /\ files[k].level = params[k].level]_vars

\* C36 witness: two params for two different objects were committed and came
\* back as the files with ids 3 and 4, in that order.
C36_Witness ==
    /\ returned /\ next_id = 5 /\ Len(locals.created) = 2
    /\ locals.created[1].id = 3 /\ locals.created[2].id = 4
    /\ locals.created[1].uuid # locals.created[2].uuid

\* C37: observe evaluates the cost and marks the partition as persisting under
\* the hold of the partition lock the write took: while the lock is held no
\* write is applied, the only change of the partition is mark_persisting of
\* the buffer the write left, and that buffer is the data of the spawned
\* enqueue; observe gives the lock back without the persist queue having been
\* called, and the enqueue task runs later without touching the partition or
\* its lock.
C37_PersistUnderTheWriteLock ==
    [][/\ (~persister.guard /\ persister'.guard) =>
             \E mb \in {1, 2} :
                persister'.partition.buffer = Append(persister.partition.buffer, mb)
       /\ persister.guard =>
             /\ persister'.writes = persister.writes
             /\ persister'.partition # persister.partition =>
                   /\ ~persister'.guard
                   /\ SeqSum(persister.partition.buffer) >= persister.max_estimated_persist_cost
                   /\ persister'.partition.buffer = <<>>
                   /\ persister'.partition.persisting
                         = Append(persister.partition.persisting, persister.partition.buffer)
                   /\ persister'.spawned = Append(persister.spawned, persister.partition.buffer)
             /\ ~persister'.guard => persister'.calls = persister.calls
       /\ persister'.calls # persister.calls =>
             /\ persister'.partition = persister.partition
             /\ persister'.guard = persister.guard
             /\ \E n \in 1..Len(persister.spawned) :
                   persister'.calls = Append(persister.calls, persister.spawned[n])]_vars

\* C37 witness: the second write reached the limit and its buffer was marked
\* as persisting; observe returned and a third write was applied and observed
\* while the enqueue of the first two had not run yet.
C37_Witness ==
    /\ persister.max_estimated_persist_cost = 2
    /\ persister.writes = 3 /\ ~persister.guard
    /\ persister.spawned = << <<1, 1>> >> /\ persister.calls = <<>>
    /\ persister.partition.persisting = << <<1, 1>> >>
    /\ persister.partition.buffer = <<1>>

\* C38: for every total_permits >= 1 and every column count, 0 included,
\* compute_permits returns at least 1 and at most total_permits: a plan never
\* requests zero permits and never more than the semaphore holds.
C38_PermitsWithinSemaphore ==
    (permit_call.returned
        /\ (permit_call.total_permits.hi >= 1 \/ permit_call.total_permits.lo >= 1)) =>
        /\ permit_call.permits >= 1
        /\ permit_call.total_permits.hi = 0 =>
              permit_call.permits <= permit_call.total_permits.lo

\* C39: for every Duration d >= 0, parsing the text Display writes for d
\* succeeds, consumes the whole text and yields d again.
C39_DisplayParseRoundTrip ==
    literal.pc = "reparsed" =>
        /\ literal.again.ok
        /\ literal.again.rest = <<>>
        /\ literal.again.d = literal.d

\* C40: get_flight_info and do_get return a Protocol error exactly for
\* ActionCreatePreparedStatementRequest and ActionClosePreparedStatementRequest
\* and handle every other command; do_action handles exactly those two and
\* returns a Protocol error for every other command; a Protocol error names
\* the command and the method called; closing a prepared statement succeeds
\* with empty bytes whatever its query and the state of the session context.
C40_CommandsSplitBetweenEntryPoints ==
    planner.called # "" =>
        LET action == planner.cmd.name \in {"ActionCreatePreparedStatementRequest",
                                            "ActionClosePreparedStatementRequest"}
            protocol == ~planner.result.ok /\ planner.result.error = "Protocol"
        IN /\ planner.called \in {"GetFlightInfo", "DoGet"} => (protocol <=> action)
           /\ planner.called = "DoAction" => (protocol <=> ~action)
           /\ protocol => /\ planner.result.method = planner.called
                          /\ planner.result.cmd = planner.cmd.name
           /\ (~protocol /\ ~planner.result.ok) =>
                  (planner.ctx_fails \/ planner.cmd.query = "selec")
           /\ (planner.called = "DoAction"
                 /\ planner.cmd.name = "ActionClosePreparedStatementRequest") =>
                  (planner.result.ok /\ planner.result.value = "")

\* C40 witness: a prepared statement whose query does not parse was closed
\* through do_action, with a failing session context, and the call returned
\* Ok with empty bytes.
C40_Witness ==
    /\ planner.called = "DoAction"
    /\ planner.cmd = [name |-> "ActionClosePreparedStatementRequest", query |-> "selec"]
    /\ planner.ctx_fails
    /\ planner.result.ok /\ planner.result.value = ""

====
